---- MODULE Spec2Model ----
(***************************************************************************)
(* Verification model of the runtime control plane of the Ellie backend.   *)
(*                                                                         *)
(* Part I   Circuit Breaker Manager                                        *)
(*          (docs/migration/backend-fastapi-reference/app/services/        *)
(*           circuit_breaker.py)                                           *)
(* Part II  Rate Limiter on top of the Cache Service                       *)
(*          (.../services/rate_limiter.py, app/services/cache_service.py)  *)
(* Part III Service Discovery (.../services/service_discovery.py)          *)
(* Part IV  WebSocket Manager (.../services/websocket_manager.py)          *)
(* Part V   Health Check Service (backend-fastapi/app/services/            *)
(*          health_check.py)                                               *)
(*                                                                         *)
(* Each part has its own specification; the variables of the other parts   *)
(* stay at their initial values.                                           *)
(***************************************************************************)
EXTENDS Integers, FiniteSets, Sequences, TLC

VARIABLES
    \* Part I
    cbNow,              \* time.time(), in whole ticks
    circuit_breakers,   \* CircuitBreakerManager.circuit_breakers: name -> breaker
    detached,           \* breakers removed from the table while calls on them run
    stats,              \* CircuitBreakerManager.stats: name -> CircuitBreakerStats
    cbCalls,            \* calls made so far (bounds the runs explored)
    cbFresh,            \* per name: the breaker's whole history is this many failed
                        \* calls, one after another (-1: it is not) (observation)
    cbLast,             \* what the step just taken did and returned (observation)
    \* Part II
    rlNow,              \* time.time(), in whole seconds
    connected,          \* CacheService.connected: Redis (TRUE) or the local map
    limit,              \* the limit argument every check is made with
    redis,              \* the keys of the Redis server: key -> value, expiry
    in_memory_cache,    \* CacheService.in_memory_cache: key -> value, expires_at
    tasks,              \* the checks in progress: where each one is suspended
    rl_stats,           \* RateLimiter.stats
    client_stats,       \* RateLimiter.client_stats: client -> counters
    rlChecks,           \* checks made so far (bounds the runs explored)
    rlDone,             \* per client and second: checks decided and admitted
                        \* (observation)
    rlLast,             \* what the step just taken returned (observation)
    \* Part III
    services,           \* ServiceDiscovery.services: the instances, in the
                        \* order of the dict
    sd_stats,           \* ServiceDiscovery.stats
    probes,             \* the probe tasks still running: the object each one
                        \* holds -> its health_endpoint
    cycle,              \* _perform_health_checks is waiting for its tasks
    health_check_task,  \* the task of _health_check_loop: looping, or
                        \* cancelled by shutdown
    sdObjects,          \* ServiceInfo objects made so far (bounds the runs)
    sdCycles,           \* probe cycles begun so far (bounds the runs)
    sdRegistered,       \* ids registered and not deregistered since
                        \* (observation)
    sdLast,             \* what the step just taken did and returned
                        \* (observation)
    \* Part IV
    wsNow,              \* time.time(), in whole ticks
    transport,          \* per connection: not accepted yet ("new"), open, closed
                        \* by the client ("gone") or closed from this side
    active_connections, \* WebSocketManager.active_connections (its keys)
    connection_info,    \* WebSocketManager.connection_info, in the order of
                        \* the dict
    user_connections,   \* WebSocketManager.user_connections
    session_connections, \* WebSocketManager.session_connections
    ws_stats,           \* WebSocketManager.stats
    wsTasks,            \* the coroutines: where each one is suspended
    wsOps,              \* sends, frames and sweeps so far (bounds the runs)
    wsSweep,            \* the sweep under way or last made: its current_time,
                        \* the last_activity it saw and the ids it called
                        \* disconnect on (observation)
    running,            \* WebSocketManager.running
    wsBroadcast,        \* the broadcast under way or last made: its
                        \* sent_count, and the table it started from, its
                        \* exclude_connections, the ids it called send_message
                        \* on, the ids it wrote to and how it ended
                        \* (observation)
    wsLast,             \* what the step just taken did and returned
                        \* (observation)
    \* Part V
    service_stats,      \* get_system_health: service_discovery.get_stats()
    system_metrics,     \* get_system_health: _get_system_metrics()
    external_services,  \* get_system_health: _check_external_services()
    overall_health      \* get_system_health: the "overall" of the report it
                        \* returned, "" while it has returned none

cbVars == <<cbNow, circuit_breakers, detached, stats, cbCalls, cbFresh, cbLast>>

rlVars == <<rlNow, connected, limit, redis, in_memory_cache, tasks, rl_stats,
            client_stats, rlChecks, rlDone, rlLast>>

sdVars == <<services, sd_stats, probes, cycle, health_check_task, sdObjects,
            sdCycles, sdRegistered, sdLast>>

wsVars == <<wsNow, transport, active_connections, connection_info,
            user_connections, session_connections, ws_stats, wsTasks, wsOps,
            wsSweep, running, wsBroadcast, wsLast>>

hcVars == <<service_stats, system_metrics, external_services, overall_health>>

vars == <<cbVars, rlVars, sdVars, wsVars, hcVars>>

(***************************************************************************)
(* Bounds of the model.                                                    *)
(***************************************************************************)
MaxTime == 1
MaxCalls == 3
MaxInflight == 1
\* settings.CIRCUIT_BREAKER_FAILURE_THRESHOLD / _RECOVERY_TIMEOUT, scaled down
\* from their defaults of 5 calls and 60 seconds.
DefaultFailureThreshold == 2
DefaultRecoveryTimeout == 1

Names == {"A", "B"}
\* An Optional[int] argument: 0 stands for None (and for 0, equally falsy).
ThresholdArgs == {0, 1}
\* What the wrapped operation does when it is invoked: returns, raises an
\* ordinary exception, or raises CircuitBreakerOpenError itself (an operation
\* that goes through another, open, breaker).
Outcomes == {"ok", "exc", "cboe"}

\* Optional[float] = None
NoTime == -1

CLOSED == "closed"
OPEN == "open"
HALF_OPEN == "half_open"

(***************************************************************************)
(* Helpers on dictionaries (functions whose domain is the key set).        *)
(***************************************************************************)
Put(d, k, v) == [x \in (DOMAIN d) \cup {k} |-> IF x = k THEN v ELSE d[x]]

Del(d, k) == [x \in (DOMAIN d) \ {k} |-> d[x]]

(***************************************************************************)
(* The imported circuit breaker (circuitbreaker.CircuitBreaker).  Its code *)
(* is not part of the repository; the manager relies on it for the state   *)
(* machine of section 4.2: failures counted up to failure_threshold open   *)
(* the breaker, recovery_timeout after opening it is half-open, a success  *)
(* closes it and clears the count, a failure at or above the threshold     *)
(* (re)opens it and restarts the timer.  The three listeners are called    *)
(* when the breaker opens, closes and goes half-open.                      *)
(***************************************************************************)
NewBreaker(ft, rt) ==
    [failure_threshold |-> ft, recovery_timeout |-> rt,
     lib_failure_count |-> 0, lib_state |-> CLOSED, lib_opened |-> 0,
     inflight |-> 0]   \* calls on this object whose operation is running

\* circuit_breaker.current_state
current_state(o, now) ==
    IF o.lib_state = OPEN /\ now >= o.lib_opened + o.recovery_timeout
    THEN HALF_OPEN
    ELSE o.lib_state

\* the breaker after the wrapped function returned
LibSucceeded(o) ==
    [o EXCEPT !.lib_state = CLOSED, !.lib_failure_count = 0]

\* the breaker after the wrapped function raised an expected exception
LibFailed(o, now) ==
    LET cnt == o.lib_failure_count + 1
    IN  IF cnt >= o.failure_threshold
        THEN [o EXCEPT !.lib_failure_count = cnt, !.lib_state = OPEN,
                       !.lib_opened = now]
        ELSE [o EXCEPT !.lib_failure_count = cnt]

(***************************************************************************)
(* CircuitBreakerManager: listeners.                                       *)
(***************************************************************************)
\* _on_circuit_breaker_open(name) -> callback
OnOpen(st, name, now) ==
    IF name \in DOMAIN st
    THEN [st EXCEPT ![name].state = OPEN, ![name].last_failure_time = now]
    ELSE st

\* mutant: the close callback stamps the time and forgets the state
OnCloseKeepsState(st, name, now) ==
    IF name \in DOMAIN st
    THEN [st EXCEPT ![name].last_success_time = now]
    ELSE st

\* mutant: the close callback also zeroes the recorded failure count
OnCloseZeroesFailures(st, name, now) ==
    IF name \in DOMAIN st
    THEN [st EXCEPT ![name].state = CLOSED, ![name].last_success_time = now,
                    ![name].failure_count = 0]
    ELSE st

\* _on_circuit_breaker_close(name) -> callback
OnClose(st, name, now) ==
    IF name \in DOMAIN st
    THEN [st EXCEPT ![name].state = CLOSED, ![name].last_success_time = now]
    ELSE st

\* _on_circuit_breaker_half_open(name) -> callback
OnHalfOpen(st, name) ==
    IF name \in DOMAIN st
    THEN [st EXCEPT ![name].state = HALF_OPEN]
    ELSE st

\* CircuitBreakerStats(name=..., state=CLOSED, failure_threshold=..., recovery_timeout=...)
NewStats(ft, rt) ==
    [state |-> CLOSED, failure_count |-> 0, success_count |-> 0,
     total_calls |-> 0, last_failure_time |-> NoTime,
     last_success_time |-> NoTime, failure_threshold |-> ft,
     recovery_timeout |-> rt]

\* "x or default" of an Optional[int]
OrDefault(x, default) == IF x = 0 THEN default ELSE x

(***************************************************************************)
(* CircuitBreakerManager: operations.                                      *)
(***************************************************************************)
\* get_or_create_circuit_breaker: the two tables after the lookup
CreatedBreakers(name, ft, rt) ==
    IF name \notin DOMAIN circuit_breakers
    THEN Put(circuit_breakers, name,
             NewBreaker(OrDefault(ft, DefaultFailureThreshold),
                        OrDefault(rt, DefaultRecoveryTimeout)))
    ELSE circuit_breakers

CreatedStats(name, ft, rt) ==
    IF name \notin DOMAIN circuit_breakers
    THEN Put(stats, name,
             NewStats(OrDefault(ft, DefaultFailureThreshold),
                      OrDefault(rt, DefaultRecoveryTimeout)))
    ELSE stats

\* mutant: the attempt is counted as a failure as well
CountAttemptAsFailure(st, name) ==
    IF name \in DOMAIN st
    THEN [st EXCEPT ![name].total_calls = @ + 1,
                    ![name].failure_count = @ + 1]
    ELSE st

\* "if name in self.stats: self.stats[name].total_calls += 1"
CountAttempt(st, name) ==
    IF name \in DOMAIN st
    THEN [st EXCEPT ![name].total_calls = @ + 1]
    ELSE st

\* mutant: the state is compared with the wrong literal
IsRejectedWrongLiteral(o, now) == current_state(o, now) = "OPEN"

\* "if circuit_breaker.current_state == 'open': raise CircuitBreakerOpenError(name)"
IsRejected(o, now) == current_state(o, now) = OPEN

\* success statistics of call_with_circuit_breaker
CountSuccess(st, name, now) ==
    IF name \in DOMAIN st
    THEN [st EXCEPT ![name].success_count = @ + 1,
                    ![name].last_success_time = now]
    ELSE st

\* mutant: a failure is counted on the record of every name
CountFailureEveryName(st, name, now) ==
    [x \in DOMAIN st |-> [st[x] EXCEPT !.failure_count = @ + 1,
                                       !.last_failure_time = now]]

\* failure statistics of call_with_circuit_breaker ("except Exception")
CountFailure(st, name, now) ==
    IF name \in DOMAIN st
    THEN [st EXCEPT ![name].failure_count = @ + 1,
                    ![name].last_failure_time = now]
    ELSE st

\* what call_with_circuit_breaker does to the statistics once the breaker
\* object has seen the outcome: "except CircuitBreakerOpenError: raise" comes
\* before "except Exception"
CountOutcome(st, name, outcome, now) ==
    CASE outcome = "ok"   -> CountSuccess(st, name, now)
      [] outcome = "exc"  -> CountFailure(st, name, now)
      [] outcome = "cboe" -> st

\* what call_with_circuit_breaker returns or raises for an outcome
CallResult(outcome) ==
    CASE outcome = "ok"   -> "ok"
      [] outcome = "exc"  -> "ExternalServiceError"
      [] outcome = "cboe" -> "CircuitBreakerOpenError"

\* the listeners the breaker object calls for an outcome: o is the object
\* before, o1 the object after
Notify(st, name, o, o1, outcome, now) ==
    IF outcome = "ok"
    THEN IF o.lib_state # CLOSED THEN OnClose(st, name, now) ELSE st
    ELSE IF o1.lib_state = OPEN /\ o1.lib_failure_count >= o1.failure_threshold
         THEN OnOpen(st, name, now) ELSE st

\* call_with_circuit_breaker up to the point where the wrapped operation is
\* awaited: lookup or creation, the attempt counter, the open check, and the
\* start of the operation.
CallBegin(name, ft, rt) ==
    /\ cbCalls < MaxCalls
    /\ cbCalls' = cbCalls + 1
    /\ LET table == CreatedBreakers(name, ft, rt)
           st    == CountAttempt(CreatedStats(name, ft, rt), name)
           o     == table[name]
       IN  IF IsRejected(o, cbNow)
           THEN /\ circuit_breakers' = table
                /\ stats' = st
                /\ cbFresh' = [cbFresh EXCEPT ![name] = -1]
                /\ cbLast' = [op |-> "call", name |-> name,
                              result |-> "CircuitBreakerOpenError"]
           ELSE /\ o.inflight < MaxInflight
                /\ circuit_breakers' = [table EXCEPT ![name].inflight = @ + 1]
                /\ stats' = IF current_state(o, cbNow) = HALF_OPEN
                            THEN OnHalfOpen(st, name)
                            ELSE st
                /\ cbFresh' = [cbFresh EXCEPT ![name] =
                                 IF name \notin DOMAIN circuit_breakers THEN 0
                                 ELSE IF o.inflight > 0 \/ @ >= o.failure_threshold
                                      THEN -1 ELSE @]
                /\ cbLast' = [op |-> "call", name |-> name, result |-> "pending"]
    /\ UNCHANGED <<cbNow, detached, rlVars, sdVars, wsVars, hcVars>>

\* the rest of call_with_circuit_breaker, for a call whose breaker object is
\* still the one in the table: the wrapped operation ends with `outcome`, the
\* breaker object and its listeners see it, then the manager updates its
\* statistics and returns or raises.
CallEnd(name, outcome) ==
    /\ name \in DOMAIN circuit_breakers
    /\ circuit_breakers[name].inflight > 0
    /\ LET o  == circuit_breakers[name]
           o1 == IF outcome = "ok" THEN LibSucceeded(o) ELSE LibFailed(o, cbNow)
       IN  /\ circuit_breakers' =
                  [circuit_breakers EXCEPT ![name] = [o1 EXCEPT !.inflight = @ - 1]]
           /\ stats' = CountOutcome(Notify(stats, name, o, o1, outcome, cbNow),
                                    name, outcome, cbNow)
           /\ cbFresh' = [cbFresh EXCEPT ![name] =
                            IF outcome = "exc" /\ @ >= 0 THEN @ + 1 ELSE -1]
           /\ cbLast' = [op |-> "return", name |-> name,
                         result |-> CallResult(outcome)]
    /\ UNCHANGED <<cbNow, detached, cbCalls, rlVars, sdVars, wsVars, hcVars>>

\* the same for a call whose breaker object was removed from the table while
\* the operation ran: the call still holds the object, and the object's
\* listeners and the manager still address the statistics by name.
CallEndDetached(name, outcome) ==
    /\ name \in DOMAIN detached
    /\ LET o  == detached[name]
           o1 == IF outcome = "ok" THEN LibSucceeded(o) ELSE LibFailed(o, cbNow)
       IN  /\ detached' = IF o.inflight > 1
                          THEN [detached EXCEPT ![name] = [o1 EXCEPT !.inflight = @ - 1]]
                          ELSE Del(detached, name)
           /\ stats' = CountOutcome(Notify(stats, name, o, o1, outcome, cbNow),
                                    name, outcome, cbNow)
           /\ cbFresh' = [cbFresh EXCEPT ![name] = -1]
           /\ cbLast' = [op |-> "return_detached", name |-> name,
                         result |-> CallResult(outcome)]
    /\ UNCHANGED <<cbNow, circuit_breakers, cbCalls, rlVars, sdVars, wsVars, hcVars>>

\* mutant: reset clears the count of the breaker object and leaves its state
ResetBreakersCountOnly(name) ==
    IF name \in DOMAIN circuit_breakers
    THEN [circuit_breakers EXCEPT ![name].lib_failure_count = 0]
    ELSE circuit_breakers

\* reset_circuit_breaker
ResetBreakers(name) ==
    IF name \in DOMAIN circuit_breakers
    THEN [circuit_breakers EXCEPT ![name].lib_failure_count = 0,
                                  ![name].lib_state = CLOSED]
    ELSE circuit_breakers

ResetStats(name) ==
    IF name \in DOMAIN circuit_breakers /\ name \in DOMAIN stats
    THEN [stats EXCEPT ![name].state = CLOSED,
                       ![name].failure_count = 0,
                       ![name].last_failure_time = NoTime]
    ELSE stats

ResetResult(name) == IF name \in DOMAIN circuit_breakers THEN "True" ELSE "False"

Reset(name) ==
    /\ circuit_breakers' = ResetBreakers(name)
    /\ stats' = ResetStats(name)
    /\ cbFresh' = [cbFresh EXCEPT ![name] = -1]
    /\ cbLast' = [op |-> "reset", name |-> name, result |-> ResetResult(name)]
    /\ UNCHANGED <<cbNow, detached, cbCalls, rlVars, sdVars, wsVars, hcVars>>

\* remove_circuit_breaker
RemoveResult(name) ==
    IF name \in DOMAIN circuit_breakers \/ name \in DOMAIN stats
    THEN "True" ELSE "False"

Remove(name) ==
    /\ LET busy == name \in DOMAIN circuit_breakers
                   /\ circuit_breakers[name].inflight > 0
       IN  \* the model follows one removed object per name at a time
           /\ ~(busy /\ name \in DOMAIN detached)
           /\ detached' = IF busy
                          THEN Put(detached, name, circuit_breakers[name])
                          ELSE detached
    /\ circuit_breakers' = Del(circuit_breakers, name)
    /\ stats' = Del(stats, name)
    /\ cbFresh' = [cbFresh EXCEPT ![name] = -1]
    /\ cbLast' = [op |-> "remove", name |-> name, result |-> RemoveResult(name)]
    /\ UNCHANGED <<cbNow, cbCalls, rlVars, sdVars, wsVars, hcVars>>

\* the clock
Tick ==
    /\ cbNow < MaxTime
    /\ cbNow' = cbNow + 1
    /\ cbLast' = [op |-> "tick", name |-> "", result |-> ""]
    /\ UNCHANGED <<circuit_breakers, detached, stats, cbCalls, cbFresh, rlVars, sdVars, wsVars, hcVars>>

\* get_health_summary
total_breakers == Cardinality(DOMAIN stats)

open_breakers == Cardinality({n \in DOMAIN stats : stats[n].state = OPEN})

half_open_breakers == Cardinality({n \in DOMAIN stats : stats[n].state = HALF_OPEN})

closed_breakers == total_breakers - open_breakers - half_open_breakers

\* mutant: "<=" for "<" in the comparison with the total
health_status_le ==
    IF open_breakers = 0 THEN "healthy"
    ELSE IF open_breakers <= total_breakers THEN "degraded"
    ELSE "unhealthy"

health_status ==
    IF open_breakers = 0 THEN "healthy"
    ELSE IF open_breakers < total_breakers THEN "degraded"
    ELSE "unhealthy"

open_breakers_list == {n \in DOMAIN stats : stats[n].state = OPEN}

CBNext ==
    \/ \E n \in Names, ft \in ThresholdArgs : CallBegin(n, ft, 0)
    \/ \E n \in Names, r \in Outcomes : CallEnd(n, r)
    \/ \E n \in Names, r \in Outcomes : CallEndDetached(n, r)
    \/ \E n \in Names : Reset(n)
    \/ \E n \in Names : Remove(n)
    \/ Tick

(***************************************************************************)
(* Part II.  Rate Limiter on top of the Cache Service.                     *)
(*                                                                         *)
(* Bounds of the model.                                                    *)
(***************************************************************************)
RLMaxTime == 2
MaxChecks == 3
\* checks over the local map, which are single steps
MaxMemChecks == 5
MaxRequests == 2
\* settings.CACHE_TTL, RATE_LIMIT_REQUESTS and RATE_LIMIT_WINDOW, scaled down
\* from their defaults of 3600 seconds, 100 requests and 60 seconds.
CacheTTL == 1
RateLimitRequests == 2
RateLimitWindow == 1

Clients == {"c1", "c2"}
Tasks == {1, 2}
\* the client of the concurrent checks
SameClient == {"c1"}
\* window lengths a limit may name: one within CacheTTL, one beyond it
Windows == {1, 3}

\* a limit argument "M/Wseconds", kept as the two integers it parses to; the
\* missing argument (None) is the record of two zeroes
NoLimit == [max_requests |-> 0, window_seconds |-> 0]

LimitArgs ==
    {NoLimit} \cup
    [max_requests : 1..MaxRequests, window_seconds : Windows]

\* "if not limit: limit = f'{RATE_LIMIT_REQUESTS}/{RATE_LIMIT_WINDOW}seconds'"
LimitOrDefault(l) ==
    IF l = NoLimit
    THEN [max_requests |-> RateLimitRequests, window_seconds |-> RateLimitWindow]
    ELSE l

max_requests == LimitOrDefault(limit).max_requests

window_seconds == LimitOrDefault(limit).window_seconds

\* None, as the value of a key that is not there
Nil == -1

\* a Redis key without time to live
NoExpiry == -1

(***************************************************************************)
(* _sliding_window_check: the pure parts.                                  *)
(***************************************************************************)
\* "window_start = current_time - window_seconds" and
\* f"rate_limit:{client_id}:{window_start // window_seconds}"
KeyOf(client_id, current_time) ==
    <<client_id, (current_time - window_seconds) \div window_seconds>>

\* mutant: a store that does not answer counts as a full window
CountOfFailClosed(value) == IF value = Nil THEN max_requests ELSE value

\* "if current_count is None: current_count = 0 else: int(current_count)"
CountOf(value) == IF value = Nil THEN 0 ELSE value

\* mutant: the seconds elapsed in the window for the seconds left in it
RetryAfterElapsed(current_time) == current_time % window_seconds

\* "retry_after = window_seconds - (current_time % window_seconds)"
RetryAfter(current_time) == window_seconds - (current_time % window_seconds)

(***************************************************************************)
(* CacheService in fallback mode: the local map.  Values are the integers  *)
(* the limiter stores; the hit, miss, set and error counters of the        *)
(* service are for reporting and are left out.                             *)
(***************************************************************************)
\* get: "if cache_entry: if cache_entry['expires_at'] > time.time()"
MemGet(cache, key, now) ==
    IF key \in DOMAIN cache /\ cache[key].expires_at > now
    THEN cache[key].value
    ELSE Nil

\* get: "else: del self.in_memory_cache[key]"
MemAfterGet(cache, key, now) ==
    IF key \in DOMAIN cache /\ ~(cache[key].expires_at > now)
    THEN Del(cache, key)
    ELSE cache

\* _cleanup_memory_cache
MemCleanup(cache, now) ==
    [k \in {x \in DOMAIN cache : ~(cache[x].expires_at <= now)} |-> cache[k]]

\* set: "ttl = ttl or settings.CACHE_TTL" (0 stands for None), the entry, and
\* the clean-up when the map's size is a multiple of 100
MemSet(cache, key, value, ttl, now) ==
    LET stored == Put(cache, key,
                      [value |-> value,
                       expires_at |-> now + (IF ttl = 0 THEN CacheTTL ELSE ttl)])
    IN  IF Cardinality(DOMAIN stored) % 100 = 0
        THEN MemCleanup(stored, now)
        ELSE stored

\* increment, fallback implementation: get, add, set without ttl
MemIncrement(cache, key, amount, now) ==
    MemSet(MemAfterGet(cache, key, now),
           key, CountOf(MemGet(cache, key, now)) + amount, 0, now)

(***************************************************************************)
(* CacheService in Redis mode: the three commands it sends.  An integer    *)
(* goes through json.dumps on its way in and json.loads on its way out and *)
(* comes back as the same integer.                                         *)
(***************************************************************************)
RedisLive(r, key, now) ==
    /\ key \in DOMAIN r
    /\ (r[key].expires_at = NoExpiry \/ r[key].expires_at > now)

\* get: "value = await self.redis.get(key)"
RedisGet(r, key, now) == IF RedisLive(r, key, now) THEN r[key].value ELSE Nil

\* increment: "return await self.redis.incrby(key, amount)"; a key that is
\* not there is created without time to live
RedisIncrBy(r, key, amount, now) ==
    IF RedisLive(r, key, now)
    THEN [r EXCEPT ![key].value = @ + amount]
    ELSE Put(r, key, [value |-> amount, expires_at |-> NoExpiry])

\* set: "await self.redis.setex(key, ttl, value)"
RedisSetEx(r, key, ttl, value, now) ==
    Put(r, key, [value |-> value, expires_at |-> now + ttl])

(***************************************************************************)
(* RateLimiter: statistics.                                                *)
(***************************************************************************)
\* check_rate_limit: "Update stats" and "Update client stats"
StatsAfterRequest(st, client_id) ==
    [st EXCEPT !.total_requests = @ + 1,
               !.unique_clients = @ \cup {client_id}]

ClientAfterRequest(cs, client_id, now) ==
    IF client_id \notin DOMAIN cs
    THEN Put(cs, client_id,
             [requests |-> 1, blocked |-> 0, first_seen |-> now, last_seen |-> now])
    ELSE [cs EXCEPT ![client_id].requests = @ + 1, ![client_id].last_seen = now]

\* check_rate_limit: "if not is_allowed"
StatsAfterBlock(st) ==
    [st EXCEPT !.blocked_requests = @ + 1, !.rate_limit_hits = @ + 1]

ClientAfterBlock(cs, client_id) == [cs EXCEPT ![client_id].blocked = @ + 1]

(***************************************************************************)
(* Observation of the checks decided so far.                               *)
(***************************************************************************)
NoResult ==
    [done |-> FALSE, client_id |-> "", window |-> 0, current_time |-> 0,
     allowed |-> FALSE, retry_after |-> 0, failed |-> {}]

Result(client_id, current_time, allowed, retry_after, failed) ==
    [done |-> TRUE, client_id |-> client_id,
     window |-> KeyOf(client_id, current_time)[2],
     current_time |-> current_time, allowed |-> allowed,
     retry_after |-> retry_after, failed |-> failed]

\* rlDone counts, per client and per second, the checks that read that
\* second as their time: how many were decided and how many admitted
DoneAt(done, at) ==
    IF at \in DOMAIN done THEN done[at] ELSE [checks |-> 0, admitted |-> 0]

RECURSIVE SumDone(_, _)
SumDone(done, ats) ==
    IF ats = {} THEN [checks |-> 0, admitted |-> 0]
    ELSE LET at   == CHOOSE x \in ats : TRUE
             rest == SumDone(done, ats \ {at})
         IN  [checks |-> done[at].checks + rest.checks,
              admitted |-> done[at].admitted + rest.admitted]

\* the same counts for all the checks that counted on one key
DoneFor(done, key) ==
    SumDone(done, {at \in DOMAIN done : KeyOf(at[1], at[2]) = key})

Decided(done, client_id, current_time, allowed) ==
    LET at == <<client_id, current_time>>
    IN  Put(done, at, [checks |-> DoneAt(done, at).checks + 1,
                       admitted |-> DoneAt(done, at).admitted
                                        + (IF allowed THEN 1 ELSE 0)])

IdleTask ==
    [pc |-> "idle", client_id |-> "", current_time |-> 0, current_count |-> 0,
     failed |-> {}]     \* the commands of this check that failed (observation)

(***************************************************************************)
(* RateLimiter.check_rate_limit in Redis mode.  The check is suspended     *)
(* while a command is on its way to the server, and other checks run in    *)
(* the meantime; `ok` says whether the command succeeds (a failed command  *)
(* leaves the server as it was and the cache service reports None or       *)
(* False).                                                                 *)
(***************************************************************************)
\* check_rate_limit up to "await cache_service.get(key)": the statistics,
\* the limit, the time and the key
Start(t, client_id) ==
    /\ connected
    /\ rlChecks < MaxChecks
    /\ tasks[t].pc = "idle"
    /\ rlChecks' = rlChecks + 1
    /\ rl_stats' = StatsAfterRequest(rl_stats, client_id)
    /\ client_stats' = ClientAfterRequest(client_stats, client_id, rlNow)
    /\ tasks' = [tasks EXCEPT ![t] =
                   [pc |-> "get", client_id |-> client_id, current_time |-> rlNow,
                    current_count |-> 0, failed |-> {}]]
    /\ rlLast' = NoResult
    /\ UNCHANGED <<rlNow, connected, limit, redis, in_memory_cache, rlDone, cbVars, sdVars, wsVars, hcVars>>

\* a check made when no other check is in progress
StartAlone(client_id) ==
    /\ \A u \in Tasks : tasks[u].pc = "idle"
    /\ Start(1, client_id)

\* the answer to get, the comparison with max_requests and, for a full
\* window, the denial in _sliding_window_check and in check_rate_limit
Get(t, ok) ==
    /\ tasks[t].pc = "get"
    /\ LET me     == tasks[t]
           key    == KeyOf(me.client_id, me.current_time)
           count  == CountOf(IF ok THEN RedisGet(redis, key, rlNow) ELSE Nil)
           failed == IF ok THEN me.failed ELSE me.failed \cup {"get"}
       IN  IF count >= max_requests
           THEN /\ tasks' = [tasks EXCEPT ![t] = IdleTask]
                /\ rl_stats' = StatsAfterBlock(rl_stats)
                /\ client_stats' = ClientAfterBlock(client_stats, me.client_id)
                /\ rlDone' = Decided(rlDone, me.client_id, me.current_time, FALSE)
                /\ rlLast' = Result(me.client_id, me.current_time, FALSE,
                                    RetryAfter(me.current_time), failed)
           ELSE /\ tasks' = [tasks EXCEPT ![t].pc = "incr",
                                          ![t].current_count = count,
                                          ![t].failed = failed]
                /\ rlLast' = NoResult
                /\ UNCHANGED <<rl_stats, client_stats, rlDone>>
    /\ UNCHANGED <<rlNow, connected, limit, redis, in_memory_cache, rlChecks, cbVars, sdVars, wsVars, hcVars>>

\* the answer to increment; a check that read a count above 0 is admitted
Incr(t, ok) ==
    /\ tasks[t].pc = "incr"
    /\ LET me     == tasks[t]
           key    == KeyOf(me.client_id, me.current_time)
           failed == IF ok THEN me.failed ELSE me.failed \cup {"increment"}
       IN  /\ redis' = IF ok THEN RedisIncrBy(redis, key, 1, rlNow) ELSE redis
           /\ IF me.current_count = 0
              THEN /\ tasks' = [tasks EXCEPT ![t].pc = "set", ![t].failed = failed]
                   /\ rlLast' = NoResult
                   /\ UNCHANGED rlDone
              ELSE /\ tasks' = [tasks EXCEPT ![t] = IdleTask]
                   /\ rlDone' = Decided(rlDone, me.client_id, me.current_time, TRUE)
                   /\ rlLast' = Result(me.client_id, me.current_time, TRUE, 0, failed)
    /\ UNCHANGED <<rlNow, connected, limit, in_memory_cache, rl_stats,
                   client_stats, rlChecks, cbVars, sdVars, wsVars, hcVars>>

\* the answer to set(key, 1, ttl=window_seconds); the check is admitted
SetTtl(t, ok) ==
    /\ tasks[t].pc = "set"
    /\ LET me     == tasks[t]
           key    == KeyOf(me.client_id, me.current_time)
           failed == IF ok THEN me.failed ELSE me.failed \cup {"set"}
       IN  /\ redis' = IF ok
                       THEN RedisSetEx(redis, key, window_seconds, 1, rlNow)
                       ELSE redis
           /\ tasks' = [tasks EXCEPT ![t] = IdleTask]
           /\ rlDone' = Decided(rlDone, me.client_id, me.current_time, TRUE)
           /\ rlLast' = Result(me.client_id, me.current_time, TRUE, 0, failed)
    /\ UNCHANGED <<rlNow, connected, limit, in_memory_cache, rl_stats,
                   client_stats, rlChecks, cbVars, sdVars, wsVars, hcVars>>

(***************************************************************************)
(* RateLimiter.check_rate_limit in fallback mode.  The cache service       *)
(* awaits nothing that suspends, so the whole check is one step.           *)
(***************************************************************************)
CheckInMemory(client_id) ==
    /\ ~connected
    /\ rlChecks < MaxMemChecks
    /\ rlChecks' = rlChecks + 1
    /\ LET key     == KeyOf(client_id, rlNow)
           count   == CountOf(MemGet(in_memory_cache, key, rlNow))
           read    == MemAfterGet(in_memory_cache, key, rlNow)
           counted == MemIncrement(read, key, 1, rlNow)
           allowed == ~(count >= max_requests)
       IN  /\ in_memory_cache' =
                  IF ~allowed THEN read
                  ELSE IF count = 0
                       THEN MemSet(counted, key, 1, window_seconds, rlNow)
                       ELSE counted
           /\ rl_stats' = IF allowed
                          THEN StatsAfterRequest(rl_stats, client_id)
                          ELSE StatsAfterBlock(StatsAfterRequest(rl_stats, client_id))
           /\ client_stats' =
                  IF allowed
                  THEN ClientAfterRequest(client_stats, client_id, rlNow)
                  ELSE ClientAfterBlock(
                           ClientAfterRequest(client_stats, client_id, rlNow),
                           client_id)
           /\ rlDone' = Decided(rlDone, client_id, rlNow, allowed)
           /\ rlLast' = Result(client_id, rlNow, allowed,
                               IF allowed THEN 0 ELSE RetryAfter(rlNow), {})
    /\ UNCHANGED <<rlNow, connected, limit, redis, tasks, cbVars, sdVars, wsVars, hcVars>>

\* the clock
RLTick ==
    /\ rlNow < RLMaxTime
    /\ rlNow' = rlNow + 1
    /\ rlLast' = NoResult
    /\ UNCHANGED <<connected, limit, redis, in_memory_cache, tasks, rl_stats,
                   client_stats, rlChecks, rlDone, cbVars, sdVars, wsVars, hcVars>>

\* time passing between two checks: a check made alone takes no time that
\* counts against the window
TickBetweenChecks ==
    /\ \A u \in Tasks : tasks[u].pc = "idle"
    /\ RLTick

(***************************************************************************)
(* Part III  Service Discovery (service_discovery.py).                     *)
(***************************************************************************)
\* Bound: register calls and probe cycles in a run, taken together.
MaxSdOps == 3

ServiceIds == {"s1", "s2"}
ServiceNames == {"A", "B"}
\* tags of an instance and of a request; the empty set is also None
TagSets == {{}, {"x"}, {"x", "y"}}
\* the service_data of the register calls: instances of A with each tag set,
\* one of them without a probe path, and an instance of B
Descriptors ==
    {[name |-> "A", tags |-> tags, health_endpoint |-> "/health"] : tags \in TagSets}
    \cup {[name |-> "A", tags |-> {}, health_endpoint |-> ""],
          [name |-> "B", tags |-> {}, health_endpoint |-> "/health"]}
\* (time.time() - start_time) * 1000 of a probe answered with 200
Latencies == {0, 10}

\* response_time_ms: Optional[float] = None
NoLatency == -1
\* what the GET of a probe does, with the time it took (which only a 200
\* records): status 200, another status, or an exception (transport error,
\* timeout)
ProbeAnswers ==
    {[outcome |-> "200", latency |-> l] : l \in Latencies}
    \cup {[outcome |-> o, latency |-> NoLatency] : o \in {"other", "error"}}
\* float('inf')
Infinity == 1000000
\* discover_service returning None (the result is given as the instance's id)
NoService == "none"

\* what a step did: the call, its arguments and what it returned
SdResult(op, service_id, name, tags, result) ==
    [op |-> op, id |-> service_id, name |-> name, tags |-> tags,
     result |-> result]

\* ServiceDiscovery.stats after __init__; average_response_time is kept as
\* the quotient total / count it is computed from (0.0 is 0 / 1)
NewSdStats ==
    [total_services |-> 0, healthy_services |-> 0, unhealthy_services |-> 0,
     total_health_checks |-> 0, failed_health_checks |-> 0,
     average_response_time |-> [total |-> 0, count |-> 1]]

\* ServiceInfo(...) as register_service builds it; obj tells this object
\* from the others that carry the same id.  last_health_check is the time
\* of the last probe, read to the probe cycle it fell in (cycles count from
\* 1, and 0 is None)
NewServiceInfo(obj, service_id, name, tags, health_endpoint) ==
    [id |-> service_id, obj |-> obj, name |-> name, tags |-> tags,
     health_endpoint |-> health_endpoint, health_status |-> "unknown",
     consecutive_failures |-> 0, response_time_ms |-> NoLatency,
     last_health_check |-> 0]

\* the positions of a dict's values
Positions(svcs) == 1..Len(svcs)

ServiceIdsOf(svcs) == {svcs[i].id : i \in Positions(svcs)}

\* self.services[service_id] = service_info: a key already in the dict
\* keeps its place, a new key goes last
ServicesSet(svcs, service_info) ==
    IF service_info.id \in ServiceIdsOf(svcs)
    THEN [i \in Positions(svcs) |->
             IF svcs[i].id = service_info.id THEN service_info ELSE svcs[i]]
    ELSE Append(svcs, service_info)

\* a pop that takes nothing out of the dict
ServicesPopNothing(svcs, service_id) == svcs

\* self.services.pop(service_id)
ServicesPop(svcs, service_id) ==
    LET Others(s) == s.id # service_id
    IN  SelectSeq(svcs, Others)

get_services_by_name(svcs, name) ==
    LET Named(s) == s.name = name
    IN  SelectSeq(svcs, Named)

\* list(self.services.values()), as the ids in the order of the dict
get_all_services == [i \in Positions(services) |-> services[i].id]

\* key=lambda s: s.response_time_ms or float('inf'): None and 0 are falsy
LatencyKey(s) ==
    IF s.response_time_ms = NoLatency \/ s.response_time_ms = 0
    THEN Infinity
    ELSE s.response_time_ms

\* min(list, key=...): the first of the elements with the least key
MinByLatency(list) ==
    LET i == CHOOSE i \in Positions(list) :
                 /\ \A j \in Positions(list) : LatencyKey(list[i]) <= LatencyKey(list[j])
                 /\ \A j \in 1..(i - 1) : LatencyKey(list[j]) > LatencyKey(list[i])
    IN  list[i]

\* discover_service(name, tags): the id of the instance it returns
discover_service(name, tags) ==
    LET HasTags(s) == tags \subseteq s.tags
        Healthy(s) == s.health_status = "healthy"
        by_name == get_services_by_name(services, name)
        matching == IF tags # {} THEN SelectSeq(by_name, HasTags) ELSE by_name
        healthy_services == SelectSeq(matching, Healthy)
    IN  IF healthy_services # <<>> THEN MinByLatency(healthy_services).id
        ELSE IF matching # <<>> THEN matching[1].id
        ELSE NoService

\* _update_health_stats
HealthStats(svcs, st) ==
    LET healthy == {i \in Positions(svcs) : svcs[i].health_status = "healthy"}
        timed == {i \in healthy : svcs[i].response_time_ms # NoLatency
                                    /\ svcs[i].response_time_ms # 0}
        RECURSIVE Total(_)
        Total(is) == IF is = {} THEN 0
                     ELSE LET i == CHOOSE i \in is : TRUE
                          IN  svcs[i].response_time_ms + Total(is \ {i})
    IN  [st EXCEPT
            !.healthy_services = Cardinality(healthy),
            !.unhealthy_services =
                Cardinality({i \in Positions(svcs) : svcs[i].health_status = "unhealthy"}),
            !.average_response_time =
                IF timed # {} THEN [total |-> Total(timed), count |-> Cardinality(timed)]
                ELSE [total |-> 0, count |-> 1]]

\* mutant: a probe answered with another status leaves the counter alone
ProbedOtherNotCounted(s, outcome, latency, now) ==
    IF outcome = "200"
    THEN [s EXCEPT !.health_status = "healthy", !.consecutive_failures = 0,
                   !.response_time_ms = latency, !.last_health_check = now]
    ELSE IF outcome = "other"
    THEN [s EXCEPT !.health_status = "degraded", !.last_health_check = now]
    ELSE [s EXCEPT !.health_status = "unhealthy",
                   !.consecutive_failures = s.consecutive_failures + 1,
                   !.last_health_check = now]

\* what _check_service_health writes into the ServiceInfo it was given, for
\* an instance that has a health_endpoint
Probed(s, outcome, latency, now) ==
    IF outcome = "200"
    THEN [s EXCEPT !.health_status = "healthy", !.consecutive_failures = 0,
                   !.response_time_ms = latency, !.last_health_check = now]
    ELSE IF outcome = "other"
    THEN [s EXCEPT !.health_status = "degraded",
                   !.consecutive_failures = s.consecutive_failures + 1,
                   !.last_health_check = now]
    ELSE [s EXCEPT !.health_status = "unhealthy",
                   !.consecutive_failures = s.consecutive_failures + 1,
                   !.last_health_check = now]

\* the arguments of a task of _check_service_health: service_id and the
\* ServiceInfo object, of which the task reads the fields that never change
Held(service_info) ==
    [id |-> service_info.id, obj |-> service_info.obj,
     name |-> service_info.name, tags |-> service_info.tags,
     health_endpoint |-> service_info.health_endpoint]

\* mutant: the task stores the object it holds under its id when it has
\* written to it
ProbeWrittenByKey(svcs, held, outcome, latency, now) ==
    LET here == {i \in Positions(svcs) : svcs[i].obj = held.obj}
        service_info ==
            IF here # {} THEN svcs[CHOOSE i \in here : TRUE]
            ELSE NewServiceInfo(held.obj, held.id, held.name, held.tags,
                                held.health_endpoint)
    IN  ServicesSet(svcs, Probed(service_info, outcome, latency, now))

\* the table when a task of _check_service_health has written to the
\* ServiceInfo object it holds: the table shows what was written when it
\* holds that object, and the task puts nothing into the table
ProbeWritten(svcs, held, outcome, latency, now) ==
    [i \in Positions(svcs) |->
        IF svcs[i].obj = held.obj
        THEN Probed(svcs[i], outcome, latency, now)
        ELSE svcs[i]]

\* mutant: a task that ends with an exception ends the other tasks of its
\* gather
RunningAfterErrorCancels(ps, obj, outcome) ==
    IF outcome = "error" THEN <<>> ELSE Del(ps, obj)

\* the tasks of the gather still running when the task of obj has ended:
\* the exception of a request is caught in its own task ("except Exception"),
\* and gather(return_exceptions=True) waits for every task
RunningAfter(ps, obj, outcome) == Del(ps, obj)

\* register_service: with an id of the caller's, or with a fresh uuid4
register_service(service_id, supplied, name, tags, health_endpoint) ==
    /\ sdObjects + sdCycles < MaxSdOps
    /\ supplied \/ service_id \notin ServiceIdsOf(services)
    /\ services' = ServicesSet(services,
                       NewServiceInfo(sdObjects + 1, service_id, name, tags,
                                      health_endpoint))
    /\ sd_stats' = [sd_stats EXCEPT !.total_services = Len(services')]
    /\ sdObjects' = sdObjects + 1
    /\ sdRegistered' = sdRegistered \cup {service_id}
    /\ sdLast' = SdResult("register", service_id, "", {}, service_id)
    /\ UNCHANGED <<probes, cycle, sdCycles,
                   health_check_task, cbVars, rlVars, wsVars, hcVars>>

\* deregister_service
deregister_service(service_id) ==
    /\ IF service_id \in ServiceIdsOf(services)
       THEN /\ services' = ServicesPop(services, service_id)
            /\ sd_stats' = [sd_stats EXCEPT !.total_services = Len(services')]
            /\ sdLast' = SdResult("deregister", service_id, "", {}, "True")
       ELSE /\ UNCHANGED <<services, sd_stats>>
            /\ sdLast' = SdResult("deregister", service_id, "", {}, "False")
    /\ sdRegistered' = sdRegistered \ {service_id}
    /\ UNCHANGED <<probes, cycle, sdObjects, sdCycles,
                   health_check_task, cbVars, rlVars, wsVars, hcVars>>

\* a caller of discover_service gets its answer
Discover(name, tags) ==
    /\ sdLast' = SdResult("discover", "", name, tags, discover_service(name, tags))
    /\ UNCHANGED <<services, sd_stats, probes, cycle, sdObjects, sdCycles,
                   sdRegistered, health_check_task, cbVars, rlVars, wsVars, hcVars>>

\* _perform_health_checks up to its gather: one task per instance in the
\* table, each holding the ServiceInfo object it was created with (a table
\* that is empty makes it return at once, which changes nothing)
BeginProbes ==
    /\ health_check_task = "looping"
    /\ ~cycle
    /\ sdObjects + sdCycles < MaxSdOps
    /\ services # <<>>
    /\ cycle' = TRUE
    /\ probes' = [obj \in {services[i].obj : i \in Positions(services)} |->
                      Held(services[CHOOSE i \in Positions(services) :
                                        services[i].obj = obj])]
    /\ sdCycles' = sdCycles + 1
    /\ sdLast' = SdResult("probes", "", "", {}, "")
    /\ UNCHANGED <<services, sd_stats, sdObjects, sdRegistered,
                   health_check_task, cbVars, rlVars, wsVars, hcVars>>

\* one task of _check_service_health runs to its end; the object it holds
\* may have left the table since, and then what it writes is seen by no one
CheckServiceHealth(obj, outcome, latency) ==
    /\ obj \in DOMAIN probes
    /\ IF probes[obj].health_endpoint = ""
       THEN /\ probes' = Del(probes, obj)
            /\ UNCHANGED <<services, sd_stats>>
            /\ sdLast' = SdResult("probe", "", "", {}, "skipped")
       ELSE /\ probes' = RunningAfter(probes, obj, outcome)
            /\ services' = ProbeWritten(services, probes[obj], outcome,
                                        latency, sdCycles)
            /\ sd_stats' =
                   [sd_stats EXCEPT
                       !.total_health_checks = @ + 1,
                       !.failed_health_checks =
                           @ + (IF outcome = "error" THEN 1 ELSE 0)]
            /\ sdLast' = SdResult("probe", "", "", {}, outcome)
    /\ UNCHANGED <<cycle, sdObjects, sdCycles, sdRegistered,
                   health_check_task, cbVars, rlVars, wsVars, hcVars>>

\* an iteration that raises (mutant: the exception ends the loop)
Raised(task) == "raised"

\* _health_check_loop: "except Exception" logs what an iteration raised and
\* sleeps, and "while self.running" goes on
Caught(task) == task

\* _perform_health_checks raises when its gather has returned, and
\* _health_check_loop catches it: the stats are not updated
ProbesRaised ==
    /\ cycle
    /\ probes = <<>>
    /\ cycle' = FALSE
    /\ health_check_task' = Caught(health_check_task)
    /\ sdLast' = SdResult("probed", "", "", {}, "error")
    /\ UNCHANGED <<services, sd_stats, probes, sdObjects, sdCycles,
                   sdRegistered, cbVars, rlVars, wsVars, hcVars>>

\* shutdown: self.running = False and the task of the loop is cancelled; the
\* CancelledError reaches it at its sleep, or at its gather, which cancels
\* the probes that still run, and ends the loop
ShutdownDiscovery ==
    /\ health_check_task = "looping"
    /\ health_check_task' = "cancelled"
    /\ cycle' = FALSE
    /\ probes' = <<>>
    /\ sdLast' = SdResult("shutdown", "", "", {}, "")
    /\ UNCHANGED <<services, sd_stats, sdObjects, sdCycles, sdRegistered,
                   cbVars, rlVars, wsVars, hcVars>>

\* the gather of _perform_health_checks returns: _update_health_stats
EndProbes ==
    /\ cycle
    /\ probes = <<>>
    /\ cycle' = FALSE
    /\ sd_stats' = HealthStats(services, sd_stats)
    /\ sdLast' = SdResult("probed", "", "", {}, "")
    /\ UNCHANGED <<services, probes, sdObjects, sdCycles, sdRegistered,
                   health_check_task, cbVars, rlVars, wsVars, hcVars>>

(***************************************************************************)
(* Part IV  WebSocket Manager (websocket_manager.py).                      *)
(*                                                                         *)
(* A coroutine is a task; it is suspended at an await on the transport     *)
(* (send_text, close, receive_text) and runs from one such await to the    *)
(* next in one step.                                                       *)
(***************************************************************************)
\* Bounds: the clock, and the calls of send_message and broadcast_message
\* from outside the receive loops, frames received and sweeps in a run, taken
\* together.
WSMaxTime == 2
MaxWsOps == 2
\* _cleanup_loop: "no activity for 5 minutes" (300 seconds), scaled to ticks
IdleTimeout == 1

\* str(uuid4()) of the connections a run accepts
ConnIds == {"k1", "k2"}
\* the tasks: handle_connection of each connection, under its id, a caller
\* of send_message from outside the receive loops, _cleanup_loop, a caller
\* of broadcast_message (_heartbeat_loop, which excludes no one, or another
\* caller), and the caller of shutdown
WsTaskIds == ConnIds \cup {"sender", "sweep", "broadcast", "shutdown"}
\* inbound frames: a ping, text that is not JSON (or is no message), a
\* message of a type without handler, a message whose handler raises
FrameKinds == {"ping", "invalid", "unknown", "raises"}

\* WebSocketManager.stats after __init__
NewWsStats ==
    [total_connections |-> 0, current_connections |-> 0, messages_sent |-> 0,
     messages_received |-> 0, disconnections |-> 0, errors |-> 0]

\* ConnectionInfo(...) as handle_connection builds it, without the fields
\* that are written once and only reported (client_ip, user_agent,
\* connected_at); "" is None
NewConnectionInfo(connection_id, now) ==
    [connection_id |-> connection_id, last_activity |-> now,
     message_count |-> 0, user_id |-> "", session_id |-> ""]

\* a task that is not running (or has not begun)
IdleWsTask == [pc |-> "idle", conn |-> "", after |-> "", rest |-> <<>>]

\* broadcast_message before any call of it
NoBroadcast ==
    [start |-> {}, exclude |-> {}, attempted |-> {}, written |-> {},
     sent_count |-> 0, status |-> "none"]

\* what a step did: the call, the connection, what became of the transport
\* write and what the call returned or raised
WsResult(op, conn, write, result) ==
    [op |-> op, conn |-> conn, write |-> write, result |-> result]

\* the keys of self.connection_info
InfoIds(info) == {info[i].connection_id : i \in 1..Len(info)}

\* connection_id in self.connection_info: the entry
InfoOf(info, connection_id) ==
    info[CHOOSE i \in 1..Len(info) : info[i].connection_id = connection_id]

\* _handle_messages: last_activity and message_count of a frame that parsed
Touched(info, connection_id, now) ==
    [i \in 1..Len(info) |->
        IF info[i].connection_id = connection_id
        THEN [info[i] EXCEPT !.last_activity = now,
                             !.message_count = info[i].message_count + 1]
        ELSE info[i]]

\* _cleanup_loop: inactive_connections, the ids with
\* current_time - conn_info.last_activity > 300 in the order of the dict
inactive_connections(info, current_time) ==
    LET Inactive(conn_info) ==
            current_time - conn_info.last_activity > IdleTimeout
        list == SelectSeq(info, Inactive)
    IN  [i \in 1..Len(list) |-> list[i].connection_id]

\* mutant: disconnect leaves the indexes as they are
DiscardedNothing(index, key, connection_id) == index

\* disconnect, the index cleanup: discard the id from the set of its user
\* (or session) and drop the set when it is empty
Discarded(index, key, connection_id) ==
    IF key # "" /\ key \in DOMAIN index
    THEN IF index[key] \ {connection_id} = {}
         THEN Del(index, key)
         ELSE Put(index, key, index[key] \ {connection_id})
    ELSE index

\* disconnect, from "Clean up connection info" on: the tables and the stats
\* after it, given the tables and the stats before it
Cleaned(tb, connection_id) ==
    LET info == tb.connection_info
        known == connection_id \in InfoIds(info)
        conn_info == InfoOf(info, connection_id)
        Others(ci) == ci.connection_id # connection_id
    IN  [tb EXCEPT
            !.connection_info = IF known THEN SelectSeq(info, Others) ELSE info,
            !.user_connections =
                IF known THEN Discarded(@, conn_info.user_id, connection_id)
                ELSE @,
            !.session_connections =
                IF known THEN Discarded(@, conn_info.session_id, connection_id)
                ELSE @,
            !.ws_stats = [@ EXCEPT
                             !.disconnections = @ + 1,
                             !.current_connections =
                                 Cardinality(tb.active_connections)]]

\* the tables and the stats as they are
Tables ==
    [active_connections |-> active_connections,
     connection_info |-> connection_info,
     user_connections |-> user_connections,
     session_connections |-> session_connections,
     ws_stats |-> ws_stats]

\* mutant: disconnect deletes the id from the socket table and leaves the
\* rest for later
DeletedSocketOnly(tb, connection_id) ==
    [tb EXCEPT !.active_connections = @ \ {connection_id}]

\* disconnect after its close(): del self.active_connections[connection_id]
\* and the rest
Deleted(tb, connection_id) ==
    Cleaned([tb EXCEPT !.active_connections = @ \ {connection_id}],
            connection_id)

\* websocket.close() is called: the transport is closed from this side
\* (unless the client has gone already)
Closed(tr, connection_id) ==
    [tr EXCEPT ![connection_id] = IF @ = "open" THEN "closed" ELSE @]

SetTables(tb) ==
    /\ active_connections' = tb.active_connections
    /\ connection_info' = tb.connection_info
    /\ user_connections' = tb.user_connections
    /\ session_connections' = tb.session_connections
    /\ ws_stats' = tb.ws_stats

\* broadcast_message, "for connection_id in list(...)" from the ids still
\* to come: send_message returns False at once for the ids that are not in
\* the socket table and is suspended at the send_text of the first that is
BroadcastFrom(list, active) ==
    LET live == {i \in 1..Len(list) : list[i] \in active}
        first == CHOOSE i \in live : \A j \in live : i <= j
    IN  IF live = {}
        THEN [task |-> IdleWsTask, called |-> {list[i] : i \in 1..Len(list)}]
        ELSE [task |-> [pc |-> "send", conn |-> list[first],
                        after |-> "broadcast",
                        rest |-> SubSeq(list, first + 1, Len(list))],
              called |-> {list[i] : i \in 1..first}]

\* mutant: the receive loop ends when it has answered with an error
AfterSendErrorEnds(task, active) ==
    IF task.after = "send" THEN IdleWsTask
    ELSE IF task.after = "broadcast" THEN BroadcastFrom(task.rest, active).task
    ELSE IF task.after = "ack"
    THEN [pc |-> "sleep", conn |-> task.conn, after |-> "ack", rest |-> <<>>]
    ELSE IF running /\ task.after \notin {"error_reply", "handler_error"}
    THEN [pc |-> "receive", conn |-> task.conn, after |-> "", rest |-> <<>>]
    ELSE [pc |-> "returned", conn |-> task.conn, after |-> "", rest |-> <<>>]

\* mutant: the receive loop goes on when _handle_text_input has sent its
\* first message
AfterSendAckEnds(task, active) ==
    IF task.after = "send" THEN IdleWsTask
    ELSE IF task.after = "broadcast" THEN BroadcastFrom(task.rest, active).task
    ELSE IF running
    THEN [pc |-> "receive", conn |-> task.conn, after |-> "", rest |-> <<>>]
    ELSE [pc |-> "returned", conn |-> task.conn, after |-> "", rest |-> <<>>]

\* where a task goes on when its send_message has returned: the caller of
\* the sender, the loop of broadcast_message, _handle_text_input, which
\* sleeps before it sends its ai_response, the receive loop of a handler
\* ("while self.running", and handle_connection returns when it ends)
AfterSend(task, active) ==
    IF task.after = "send" THEN IdleWsTask
    ELSE IF task.after = "broadcast" THEN BroadcastFrom(task.rest, active).task
    ELSE IF task.after = "ack"
    THEN [pc |-> "sleep", conn |-> task.conn, after |-> "ack", rest |-> <<>>]
    ELSE IF running
    THEN [pc |-> "receive", conn |-> task.conn, after |-> "", rest |-> <<>>]
    ELSE [pc |-> "returned", conn |-> task.conn, after |-> "", rest |-> <<>>]

\* broadcast_message when a send_message of its loop has returned: the
\* count, and the return when the loop is through
BroadcastStep(b, task, sent, active) ==
    LET next == BroadcastFrom(task.rest, active)
    IN  IF task.after # "broadcast" THEN b
        ELSE [b EXCEPT
                 !.written = IF sent THEN @ \cup {task.conn} ELSE @,
                 !.sent_count = IF sent THEN @ + 1 ELSE @,
                 !.attempted = @ \cup next.called,
                 !.status = IF next.task.pc = "idle" THEN "returned" ELSE @]

\* _cleanup_loop, "for connection_id in inactive_connections": disconnect is
\* called on one id after the other; the loop runs on while the ids are not in
\* the socket table and is suspended at the first close()
RECURSIVE SweepFrom(_, _, _)
SweepFrom(list, tb, called) ==
    IF list = <<>>
    THEN [task |-> IdleWsTask, tables |-> tb, called |-> called, closing |-> ""]
    ELSE IF Head(list) \in tb.active_connections
    THEN [task |-> [pc |-> "close", conn |-> Head(list), after |-> "sweep",
                    rest |-> Tail(list)],
          tables |-> tb, called |-> called \cup {Head(list)},
          closing |-> Head(list)]
    ELSE SweepFrom(Tail(list), Cleaned(tb, Head(list)),
                   called \cup {Head(list)})

\* handle_connection up to the send_text of its welcome message; an accept
\* that raises leads to disconnect of an id that is in no table
Accept(k, ok) ==
    /\ wsTasks[k].pc = "idle"
    /\ transport[k] = "new"
    /\ IF ok
       THEN /\ transport' = [transport EXCEPT ![k] = "open"]
            /\ active_connections' = active_connections \cup {k}
            /\ connection_info' = Append(connection_info, NewConnectionInfo(k, wsNow))
            /\ ws_stats' = [ws_stats EXCEPT
                               !.total_connections = @ + 1,
                               !.current_connections = Cardinality(active_connections')]
            /\ wsTasks' = [wsTasks EXCEPT ![k] =
                              [pc |-> "send", conn |-> k, after |-> "welcome",
                               rest |-> <<>>]]
            /\ wsLast' = WsResult("accept", k, "none", "")
            /\ UNCHANGED <<user_connections, session_connections>>
       ELSE /\ transport' = [transport EXCEPT ![k] = "gone"]
            /\ SetTables(Cleaned(Tables, k))
            /\ wsTasks' = [wsTasks EXCEPT ![k].pc = "returned"]
            /\ wsLast' = WsResult("returned", k, "none", "error")
    /\ UNCHANGED <<wsNow, wsOps, wsSweep, running, wsBroadcast, cbVars, rlVars,
                   sdVars, hcVars>>

\* a connection of the table is given its user and its session ("" is
\* None): the ConnectionInfo carries them and each index lists the
\* connection under them.  No code of the manager does this; the fields and
\* the indexes are there for it (ConnectionInfo.user_id, session_id,
\* self.user_connections, self.session_connections), and the data model has
\* the indexes kept with the table.
Associate(k, user_id, session_id) ==
    LET Indexed(index, key) ==
            IF key = "" THEN index
            ELSE Put(index, key,
                     (IF key \in DOMAIN index THEN index[key] ELSE {}) \cup {k})
    IN  /\ k \in active_connections
        /\ k \in InfoIds(connection_info)
        /\ InfoOf(connection_info, k).user_id = ""
        /\ InfoOf(connection_info, k).session_id = ""
        /\ connection_info' =
               [i \in 1..Len(connection_info) |->
                   IF connection_info[i].connection_id = k
                   THEN [connection_info[i] EXCEPT !.user_id = user_id,
                                                   !.session_id = session_id]
                   ELSE connection_info[i]]
        /\ user_connections' = Indexed(user_connections, user_id)
        /\ session_connections' = Indexed(session_connections, session_id)
        /\ wsLast' = WsResult("associate", k, "none", "")
        /\ UNCHANGED <<wsNow, transport, active_connections, ws_stats, wsTasks,
                       wsOps, wsSweep, running, wsBroadcast, cbVars, rlVars,
                       sdVars, hcVars>>

\* the client closes the session (or is lost)
ClientClose(k) ==
    /\ transport[k] = "open"
    /\ transport' = [transport EXCEPT ![k] = "gone"]
    /\ wsLast' = WsResult("client_close", k, "none", "")
    /\ UNCHANGED <<wsNow, active_connections, connection_info, user_connections,
                   session_connections, ws_stats, wsTasks, wsOps, wsSweep,
                   running, wsBroadcast, cbVars, rlVars,
                   sdVars, hcVars>>

\* what _handle_messages and _process_message send for a frame: the pong
\* of _handle_ping ("reply"), the text_processing message of
\* _handle_text_input, which sends its ai_response later ("ack"), the
\* send_error of _handle_messages for a frame that is no message
\* ("error_reply"), the send_error of _process_message for a type without
\* handler or a handler that raised ("handler_error")
AnswerTo(kind) ==
    CASE kind = "ping"       -> "reply"
      [] kind = "text_input" -> "ack"
      [] kind = "invalid"    -> "error_reply"
      [] OTHER               -> "handler_error"

\* _handle_messages: receive_text returns a frame; it is parsed, counted and
\* answered, up to the send_text of the answer
Receive(k, kind) ==
    /\ wsTasks[k].pc = "receive"
    /\ transport[k] = "open"
    /\ wsOps < MaxWsOps
    /\ wsOps' = wsOps + 1
    /\ IF kind # "invalid"
       THEN /\ connection_info' =
                   IF k \in InfoIds(connection_info)
                   THEN Touched(connection_info, k, wsNow)
                   ELSE connection_info
            /\ ws_stats' = [ws_stats EXCEPT !.messages_received = @ + 1]
       ELSE UNCHANGED <<connection_info, ws_stats>>
    /\ wsTasks' = [wsTasks EXCEPT ![k] =
                      IF k \in active_connections
                      THEN [pc |-> "send", conn |-> k, after |-> AnswerTo(kind),
                            rest |-> <<>>]
                      ELSE AfterSend([@ EXCEPT !.after = AnswerTo(kind)],
                                     active_connections)]
    /\ wsLast' = WsResult("receive", k, "none", kind)
    /\ UNCHANGED <<wsNow, transport, active_connections, user_connections,
                   session_connections, wsSweep, running, wsBroadcast, cbVars, rlVars,
                   sdVars, hcVars>>

\* _handle_text_input from the end of its sleep: send_message of the
\* ai_response up to its send_text, or through when the connection has
\* left the table meanwhile (it returns False, and the receive loop goes on)
Wake(k) ==
    /\ wsTasks[k].pc = "sleep"
    /\ IF k \notin active_connections
       THEN /\ wsTasks' = [wsTasks EXCEPT ![k] =
                              AfterSend([@ EXCEPT !.after = "reply"],
                                        active_connections)]
            /\ wsLast' = WsResult("send", k, "none", "False")
       ELSE /\ wsTasks' = [wsTasks EXCEPT ![k] =
                              [pc |-> "send", conn |-> k, after |-> "reply",
                               rest |-> <<>>]]
            /\ wsLast' = WsResult("sending", k, "none", "")
    /\ UNCHANGED <<wsNow, transport, active_connections, connection_info,
                   user_connections, session_connections, ws_stats, wsOps,
                   wsSweep, running, wsBroadcast, cbVars, rlVars,
                   sdVars, hcVars>>

\* _handle_messages: receive_text raises on a transport that is closed, the
\* loop ends and handle_connection returns
ReceiveClosed(k) ==
    /\ wsTasks[k].pc = "receive"
    /\ transport[k] # "open"
    /\ wsTasks' = [wsTasks EXCEPT ![k].pc = "returned"]
    /\ wsLast' = WsResult("returned", k, "none",
                          IF transport[k] = "gone" THEN "client_closed"
                          ELSE "server_closed")
    /\ UNCHANGED <<wsNow, transport, active_connections, connection_info,
                   user_connections, session_connections, ws_stats, wsOps,
                   wsSweep, running, wsBroadcast, cbVars, rlVars,
                   sdVars, hcVars>>

\* a test that finds every id in the table
NotInTableNever(connection_id) == FALSE

\* send_message: connection_id not in self.active_connections
NotInTable(connection_id) == connection_id \notin active_connections

\* send_message called from outside the receive loops, up to its send_text
Send(connection_id) ==
    /\ wsTasks["sender"].pc = "idle"
    /\ wsOps < MaxWsOps
    /\ wsOps' = wsOps + 1
    /\ IF NotInTable(connection_id)
       THEN /\ wsLast' = WsResult("send", connection_id, "none", "False")
            /\ UNCHANGED wsTasks
       ELSE /\ wsTasks' = [wsTasks EXCEPT !["sender"] =
                              [pc |-> "send", conn |-> connection_id,
                               after |-> "send", rest |-> <<>>]]
            /\ wsLast' = WsResult("sending", connection_id, "none", "")
    /\ UNCHANGED <<wsNow, transport, active_connections, connection_info,
                   user_connections, session_connections, ws_stats, wsSweep,
                   running, wsBroadcast, cbVars, rlVars,
                   sdVars, hcVars>>

\* send_message from its send_text on: the write went through, or it raised
\* and disconnect is called, up to its close()
SendDone(t, ok) ==
    LET task == wsTasks[t]
        c == task.conn
    IN  /\ task.pc = "send"
        /\ ok => transport[c] = "open"
        /\ IF ok
           THEN /\ ws_stats' = [ws_stats EXCEPT !.messages_sent = @ + 1]
                /\ wsTasks' = [wsTasks EXCEPT ![t] =
                                  AfterSend(task, active_connections)]
                /\ wsBroadcast' = BroadcastStep(wsBroadcast, task, TRUE,
                                                active_connections)
                /\ wsLast' = WsResult("send", c, "ok", "True")
                /\ UNCHANGED <<transport, active_connections, connection_info,
                               user_connections, session_connections>>
           ELSE IF c \in active_connections
           THEN /\ transport' = Closed(transport, c)
                /\ wsTasks' = [wsTasks EXCEPT ![t].pc = "close"]
                /\ wsLast' = WsResult("closing", c, "failed", "")
                /\ UNCHANGED <<active_connections, connection_info,
                               user_connections, session_connections, ws_stats,
                               wsBroadcast>>
           ELSE /\ SetTables(Cleaned(Tables, c))
                /\ wsTasks' = [wsTasks EXCEPT ![t] =
                                  AfterSend(task, active_connections)]
                /\ wsBroadcast' = BroadcastStep(wsBroadcast, task, FALSE,
                                                active_connections)
                /\ wsLast' = WsResult("send", c, "failed", "False")
                /\ UNCHANGED transport
        /\ UNCHANGED <<wsNow, wsOps, wsSweep, running, cbVars, rlVars, sdVars,
                       hcVars>>

\* disconnect from its close() on.  The id is deleted from the socket table;
\* when another task has deleted it meanwhile the del raises KeyError, which
\* leaves disconnect and send_message and is caught where the task catches
\* exceptions: by _process_message (the answer of a handler, which ends the
\* handler, and then by _handle_messages when it was a send_error), by _handle_messages (send_error
\* of a frame that is no message), by handle_connection (the welcome
\* message), by _cleanup_loop, or by no one (send_message, broadcast_message
\* and shutdown called from outside)
CloseDone(t) ==
    LET task == wsTasks[t]
        c == task.conn
        swept == SweepFrom(task.rest, Deleted(Tables, c), wsSweep.called)
        ended == IF task.after = "sweep" THEN IdleWsTask
                 ELSE [IdleWsTask EXCEPT !.pc = "returned"]
    IN  /\ task.pc = "close"
        /\ IF c \in active_connections
           THEN IF task.after \in {"sweep", "shutdown"}
                THEN /\ SetTables(swept.tables)
                     /\ transport' = IF swept.closing = "" THEN transport
                                     ELSE Closed(transport, swept.closing)
                     /\ wsTasks' = [wsTasks EXCEPT ![t] =
                            IF swept.closing = "" THEN ended
                            ELSE [swept.task EXCEPT !.after = task.after]]
                     /\ wsSweep' = IF task.after = "sweep"
                                   THEN [wsSweep EXCEPT !.called = swept.called]
                                   ELSE wsSweep
                     /\ wsLast' =
                            IF task.after = "sweep"
                            THEN IF swept.closing = ""
                                 THEN WsResult("swept", "", "none", "")
                                 ELSE WsResult("sweeping", c, "none", "")
                            ELSE IF swept.closing = ""
                                 THEN WsResult("shutdown", "", "none", "done")
                                 ELSE WsResult("shutting_down", c, "none", "")
                     /\ UNCHANGED wsBroadcast
                ELSE /\ SetTables(Deleted(Tables, c))
                     /\ wsTasks' = [wsTasks EXCEPT ![t] =
                            AfterSend(task, active_connections \ {c})]
                     /\ wsBroadcast' = BroadcastStep(wsBroadcast, task, FALSE,
                                                     active_connections \ {c})
                     /\ wsLast' = WsResult("send", c, "failed", "False")
                     /\ UNCHANGED <<transport, wsSweep>>
           ELSE /\ IF task.after = "welcome"
                   THEN /\ SetTables(Cleaned(Tables, c))
                        /\ wsTasks' = [wsTasks EXCEPT ![t].pc = "returned"]
                        /\ wsLast' = WsResult("returned", c, "failed", "error")
                   ELSE /\ UNCHANGED <<active_connections, connection_info,
                                       user_connections, session_connections,
                                       ws_stats>>
                        /\ wsTasks' = [wsTasks EXCEPT ![t] =
                               IF task.after \in {"reply", "ack", "handler_error"}
                               THEN AfterSend([task EXCEPT !.after = "reply"],
                                              active_connections)
                               ELSE IF task.after \in {"error_reply", "shutdown"}
                               THEN [task EXCEPT !.pc = "returned"]
                               ELSE IdleWsTask]
                        /\ wsLast' =
                               IF task.after = "sweep"
                               THEN WsResult("swept", c, "none", "KeyError")
                               ELSE IF task.after = "shutdown"
                               THEN WsResult("shutdown", c, "none", "KeyError")
                               ELSE IF task.after = "error_reply"
                               THEN WsResult("returned", c, "failed", "error")
                               ELSE WsResult("send", c, "failed", "KeyError")
                /\ wsBroadcast' = IF task.after = "broadcast"
                                  THEN [wsBroadcast EXCEPT !.status = "KeyError"]
                                  ELSE wsBroadcast
                /\ UNCHANGED <<transport, wsSweep>>
        /\ UNCHANGED <<wsNow, wsOps, running, cbVars, rlVars, sdVars, hcVars>>

\* list(self.active_connections.keys()): the ids of the socket table in the
\* order of the dict, which is the order of connection_info
ActiveList ==
    LET InTableNow(conn_info) == conn_info.connection_id \in active_connections
        list == SelectSeq(connection_info, InTableNow)
    IN  [i \in 1..Len(list) |-> list[i].connection_id]

\* broadcast_message, up to the send_text of its first send_message
broadcast_message(exclude_connections) ==
    LET Included(connection_id) == connection_id \notin exclude_connections
        first == BroadcastFrom(SelectSeq(ActiveList, Included), active_connections)
    IN  /\ wsTasks["broadcast"].pc = "idle"
        /\ wsOps < MaxWsOps
        /\ wsOps' = wsOps + 1
        /\ wsTasks' = [wsTasks EXCEPT !["broadcast"] = first.task]
        /\ wsBroadcast' =
               [start |-> active_connections, exclude |-> exclude_connections,
                attempted |-> first.called, written |-> {}, sent_count |-> 0,
                status |-> IF first.task.pc = "idle" THEN "returned"
                           ELSE "pending"]
        /\ wsLast' = WsResult("broadcasting", "", "none", "")
        /\ UNCHANGED <<wsNow, transport, active_connections, connection_info,
                       user_connections, session_connections, ws_stats,
                       wsSweep, running, cbVars, rlVars, sdVars, hcVars>>

\* shutdown, up to the close() of its first disconnect.  The two loops are
\* cancelled: the CancelledError reaches each at the await it is suspended
\* at, passes the "except Exception" of send_message and disconnect and ends
\* the loop ("except asyncio.CancelledError: break"), which writes nothing
\* (a broadcast that excludes someone is not the heartbeat's)
shutdown ==
    LET swept == SweepFrom(ActiveList, Tables, {})
        cancelled == [IdleWsTask EXCEPT !.pc = "returned"]
        heartbeat == wsBroadcast.exclude = {}
    IN  /\ running
        /\ wsTasks["shutdown"].pc = "idle"
        /\ running' = FALSE
        /\ transport' = IF swept.closing = "" THEN transport
                        ELSE Closed(transport, swept.closing)
        /\ wsTasks' = [wsTasks EXCEPT
               !["shutdown"] = IF swept.closing = "" THEN cancelled
                               ELSE [swept.task EXCEPT !.after = "shutdown"],
               !["sweep"] = cancelled,
               !["broadcast"] = IF heartbeat THEN cancelled ELSE @]
        /\ wsBroadcast' = IF heartbeat /\ wsBroadcast.status = "pending"
                          THEN [wsBroadcast EXCEPT !.status = "cancelled"]
                          ELSE wsBroadcast
        /\ wsLast' = IF swept.closing = ""
                     THEN WsResult("shutdown", "", "none", "done")
                     ELSE WsResult("shutting_down", "", "none", "")
        /\ UNCHANGED <<wsNow, active_connections, connection_info,
                       user_connections, session_connections, ws_stats, wsOps,
                       wsSweep, cbVars, rlVars, sdVars, hcVars>>

\* one iteration of _cleanup_loop, up to the close() of the first inactive
\* connection (or to its end when there is none to close)
Sweep ==
    LET list == inactive_connections(connection_info, wsNow)
        swept == SweepFrom(list, Tables, {})
    IN  /\ running
        /\ wsTasks["sweep"].pc = "idle"
        /\ wsOps < MaxWsOps
        /\ wsOps' = wsOps + 1
        /\ SetTables(swept.tables)
        /\ transport' = IF swept.closing = "" THEN transport
                        ELSE Closed(transport, swept.closing)
        /\ wsTasks' = [wsTasks EXCEPT !["sweep"] = swept.task]
        /\ wsSweep' = [current_time |-> wsNow,
                       seen |-> [k \in InfoIds(connection_info) |->
                                    InfoOf(connection_info, k).last_activity],
                       called |-> swept.called]
        /\ wsLast' = IF swept.task.pc = "idle"
                     THEN WsResult("swept", "", "none", "")
                     ELSE WsResult("sweeping", "", "none", "")
        /\ UNCHANGED <<wsNow, running, wsBroadcast, cbVars, rlVars,
                   sdVars, hcVars>>

\* time.time() moves on, by one idle timeout; no write to a transport, no
\* close of one and no sleep of a handler is pending that long
WSTick ==
    /\ wsNow < WSMaxTime
    /\ \A t \in WsTaskIds : wsTasks[t].pc \notin {"send", "close", "sleep"}
    /\ wsNow' = wsNow + 1
    /\ wsLast' = WsResult("tick", "", "none", "")
    /\ UNCHANGED <<transport, active_connections, connection_info,
                   user_connections, session_connections, ws_stats, wsTasks,
                   wsOps, wsSweep, running, wsBroadcast, cbVars, rlVars,
                   sdVars, hcVars>>

(***************************************************************************)
(* Part V  Health Check Service (health_check.py): the overall status of   *)
(* get_system_health, computed from the three samples it takes.            *)
(***************************************************************************)
\* Bound: the healthy and the unhealthy instances the registry reports.
MaxServices == 2

\* usage_percent of memory, cpu and disk: idle, at the threshold, above it
UsagePercents == {0, 90, 91}

\* what _get_system_metrics returns: the three usages, or {"error": ...}
\* when the sampling raised
SystemMetrics ==
    {[error |-> "psutil failed"]}
    \cup [memory : UsagePercents, cpu : UsagePercents, disk : UsagePercents]

\* what _check_external_services returns: a status for each of openai and
\* groq that has an API key
ExternalServices ==
    UNION {[ks -> {"healthy", "degraded", "unhealthy"}] :
               ks \in SUBSET {"openai", "groq"}}

\* mutant: the thresholds are reached at 90
determine_overall_health_ge(stats_, metrics, external) ==
    IF "error" \in DOMAIN metrics THEN "unhealthy"
    ELSE IF metrics.memory >= 90 THEN "degraded"
    ELSE IF metrics.cpu >= 90 THEN "degraded"
    ELSE IF metrics.disk >= 90 THEN "degraded"
    ELSE IF stats_.unhealthy_services > stats_.healthy_services THEN "degraded"
    ELSE LET unhealthy_external ==
                 Cardinality({k \in DOMAIN external : external[k] = "unhealthy"})
         IN  IF unhealthy_external > 0 THEN "degraded" ELSE "healthy"

\* _determine_overall_health
determine_overall_health(stats_, metrics, external) ==
    IF "error" \in DOMAIN metrics THEN "unhealthy"
    ELSE IF metrics.memory > 90 THEN "degraded"
    ELSE IF metrics.cpu > 90 THEN "degraded"
    ELSE IF metrics.disk > 90 THEN "degraded"
    ELSE IF stats_.unhealthy_services > stats_.healthy_services THEN "degraded"
    ELSE LET unhealthy_external ==
                 Cardinality({k \in DOMAIN external : external[k] = "unhealthy"})
         IN  IF unhealthy_external > 0 THEN "degraded" ELSE "healthy"

\* what service_discovery.get_stats() returns, as far as it is read here
ServiceStats == [healthy_services : 0..MaxServices,
                 unhealthy_services : 0..MaxServices]

\* get_system_health, once its three samples are taken: the report is
\* returned
get_system_health ==
    /\ overall_health' = determine_overall_health(service_stats, system_metrics,
                                                  external_services)
    /\ UNCHANGED <<service_stats, system_metrics, external_services,
                   cbVars, rlVars, sdVars, wsVars>>

\* Part I after construction, with a limiter nobody calls
CBInit ==
    /\ cbNow = 0
    /\ circuit_breakers = <<>>
    /\ detached = <<>>
    /\ stats = <<>>
    /\ cbCalls = 0
    /\ cbFresh = [n \in Names |-> -1]
    /\ cbLast = [op |-> "init", name |-> "", result |-> ""]
    /\ rlNow = 0
    /\ connected = FALSE
    /\ limit = NoLimit
    /\ redis = <<>>
    /\ in_memory_cache = <<>>
    /\ tasks = [t \in Tasks |-> IdleTask]
    /\ rl_stats = [total_requests |-> 0, blocked_requests |-> 0,
                   unique_clients |-> {}, rate_limit_hits |-> 0]
    /\ client_stats = <<>>
    /\ rlChecks = 0
    /\ rlDone = <<>>
    /\ rlLast = NoResult
    /\ services = <<>>
    /\ sd_stats = NewSdStats
    /\ probes = <<>>
    /\ cycle = FALSE
    /\ health_check_task = "looping"
    /\ sdObjects = 0
    /\ sdCycles = 0
    /\ sdRegistered = {}
    /\ sdLast = SdResult("init", "", "", {}, "")
    /\ wsNow = 0
    /\ transport = [k \in ConnIds |-> "new"]
    /\ active_connections = {}
    /\ connection_info = <<>>
    /\ user_connections = <<>>
    /\ session_connections = <<>>
    /\ ws_stats = NewWsStats
    /\ wsTasks = [t \in WsTaskIds |-> IdleWsTask]
    /\ wsOps = 0
    /\ wsSweep = [current_time |-> 0, seen |-> <<>>, called |-> {}]
    /\ running = TRUE
    /\ wsBroadcast = NoBroadcast
    /\ wsLast = WsResult("init", "", "none", "")
    /\ service_stats = [healthy_services |-> 0, unhealthy_services |-> 0]
    /\ system_metrics = [memory |-> 0, cpu |-> 0, disk |-> 0]
    /\ external_services = <<>>
    /\ overall_health = ""

\* the limiter and the cache service after construction and initialize(),
\* with a breaker manager nobody calls
RLInit ==
    /\ rlNow = 0
    /\ connected \in BOOLEAN
    /\ limit \in LimitArgs
    /\ redis = <<>>
    /\ in_memory_cache = <<>>
    /\ tasks = [t \in Tasks |-> IdleTask]
    /\ rl_stats = [total_requests |-> 0, blocked_requests |-> 0,
                   unique_clients |-> {}, rate_limit_hits |-> 0]
    /\ client_stats = <<>>
    /\ rlChecks = 0
    /\ rlDone = <<>>
    /\ rlLast = NoResult
    /\ cbNow = 0
    /\ circuit_breakers = <<>>
    /\ detached = <<>>
    /\ stats = <<>>
    /\ cbCalls = 0
    /\ cbFresh = [n \in Names |-> -1]
    /\ cbLast = [op |-> "init", name |-> "", result |-> ""]
    /\ services = <<>>
    /\ sd_stats = NewSdStats
    /\ probes = <<>>
    /\ cycle = FALSE
    /\ health_check_task = "looping"
    /\ sdObjects = 0
    /\ sdCycles = 0
    /\ sdRegistered = {}
    /\ sdLast = SdResult("init", "", "", {}, "")
    /\ wsNow = 0
    /\ transport = [k \in ConnIds |-> "new"]
    /\ active_connections = {}
    /\ connection_info = <<>>
    /\ user_connections = <<>>
    /\ session_connections = <<>>
    /\ ws_stats = NewWsStats
    /\ wsTasks = [t \in WsTaskIds |-> IdleWsTask]
    /\ wsOps = 0
    /\ wsSweep = [current_time |-> 0, seen |-> <<>>, called |-> {}]
    /\ running = TRUE
    /\ wsBroadcast = NoBroadcast
    /\ wsLast = WsResult("init", "", "none", "")
    /\ service_stats = [healthy_services |-> 0, unhealthy_services |-> 0]
    /\ system_metrics = [memory |-> 0, cpu |-> 0, disk |-> 0]
    /\ external_services = <<>>
    /\ overall_health = ""

\* the registry after construction, with a breaker manager and a limiter
\* nobody calls
SDInit ==
    /\ services = <<>>
    /\ sd_stats = NewSdStats
    /\ probes = <<>>
    /\ cycle = FALSE
    /\ health_check_task = "looping"
    /\ sdObjects = 0
    /\ sdCycles = 0
    /\ sdRegistered = {}
    /\ sdLast = SdResult("init", "", "", {}, "")
    /\ cbNow = 0
    /\ circuit_breakers = <<>>
    /\ detached = <<>>
    /\ stats = <<>>
    /\ cbCalls = 0
    /\ cbFresh = [n \in Names |-> -1]
    /\ cbLast = [op |-> "init", name |-> "", result |-> ""]
    /\ rlNow = 0
    /\ connected = FALSE
    /\ limit = NoLimit
    /\ redis = <<>>
    /\ in_memory_cache = <<>>
    /\ tasks = [t \in Tasks |-> IdleTask]
    /\ rl_stats = [total_requests |-> 0, blocked_requests |-> 0,
                   unique_clients |-> {}, rate_limit_hits |-> 0]
    /\ client_stats = <<>>
    /\ rlChecks = 0
    /\ rlDone = <<>>
    /\ rlLast = NoResult
    /\ wsNow = 0
    /\ transport = [k \in ConnIds |-> "new"]
    /\ active_connections = {}
    /\ connection_info = <<>>
    /\ user_connections = <<>>
    /\ session_connections = <<>>
    /\ ws_stats = NewWsStats
    /\ wsTasks = [t \in WsTaskIds |-> IdleWsTask]
    /\ wsOps = 0
    /\ wsSweep = [current_time |-> 0, seen |-> <<>>, called |-> {}]
    /\ running = TRUE
    /\ wsBroadcast = NoBroadcast
    /\ wsLast = WsResult("init", "", "none", "")
    /\ service_stats = [healthy_services |-> 0, unhealthy_services |-> 0]
    /\ system_metrics = [memory |-> 0, cpu |-> 0, disk |-> 0]
    /\ external_services = <<>>
    /\ overall_health = ""

\* the manager after construction and initialize(), with the other parts
\* nobody calls
WSInit ==
    /\ wsNow = 0
    /\ transport = [k \in ConnIds |-> "new"]
    /\ active_connections = {}
    /\ connection_info = <<>>
    /\ user_connections = <<>>
    /\ session_connections = <<>>
    /\ ws_stats = NewWsStats
    /\ wsTasks = [t \in WsTaskIds |-> IdleWsTask]
    /\ wsOps = 0
    /\ wsSweep = [current_time |-> 0, seen |-> <<>>, called |-> {}]
    /\ running = TRUE
    /\ wsBroadcast = NoBroadcast
    /\ wsLast = WsResult("init", "", "none", "")
    /\ services = <<>>
    /\ sd_stats = NewSdStats
    /\ probes = <<>>
    /\ cycle = FALSE
    /\ health_check_task = "looping"
    /\ sdObjects = 0
    /\ sdCycles = 0
    /\ sdRegistered = {}
    /\ sdLast = SdResult("init", "", "", {}, "")
    /\ cbNow = 0
    /\ circuit_breakers = <<>>
    /\ detached = <<>>
    /\ stats = <<>>
    /\ cbCalls = 0
    /\ cbFresh = [n \in Names |-> -1]
    /\ cbLast = [op |-> "init", name |-> "", result |-> ""]
    /\ rlNow = 0
    /\ connected = FALSE
    /\ limit = NoLimit
    /\ redis = <<>>
    /\ in_memory_cache = <<>>
    /\ tasks = [t \in Tasks |-> IdleTask]
    /\ rl_stats = [total_requests |-> 0, blocked_requests |-> 0,
                   unique_clients |-> {}, rate_limit_hits |-> 0]
    /\ client_stats = <<>>
    /\ rlChecks = 0
    /\ rlDone = <<>>
    /\ rlLast = NoResult
    /\ service_stats = [healthy_services |-> 0, unhealthy_services |-> 0]
    /\ system_metrics = [memory |-> 0, cpu |-> 0, disk |-> 0]
    /\ external_services = <<>>
    /\ overall_health = ""

\* the Health Check Service with the samples of one get_system_health taken
HCInit ==
    /\ wsNow = 0
    /\ transport = [k \in ConnIds |-> "new"]
    /\ active_connections = {}
    /\ connection_info = <<>>
    /\ user_connections = <<>>
    /\ session_connections = <<>>
    /\ ws_stats = NewWsStats
    /\ wsTasks = [t \in WsTaskIds |-> IdleWsTask]
    /\ wsOps = 0
    /\ wsSweep = [current_time |-> 0, seen |-> <<>>, called |-> {}]
    /\ running = TRUE
    /\ wsBroadcast = NoBroadcast
    /\ wsLast = WsResult("init", "", "none", "")
    /\ services = <<>>
    /\ sd_stats = NewSdStats
    /\ probes = <<>>
    /\ cycle = FALSE
    /\ health_check_task = "looping"
    /\ sdObjects = 0
    /\ sdCycles = 0
    /\ sdRegistered = {}
    /\ sdLast = SdResult("init", "", "", {}, "")
    /\ cbNow = 0
    /\ circuit_breakers = <<>>
    /\ detached = <<>>
    /\ stats = <<>>
    /\ cbCalls = 0
    /\ cbFresh = [n \in Names |-> -1]
    /\ cbLast = [op |-> "init", name |-> "", result |-> ""]
    /\ rlNow = 0
    /\ connected = FALSE
    /\ limit = NoLimit
    /\ redis = <<>>
    /\ in_memory_cache = <<>>
    /\ tasks = [t \in Tasks |-> IdleTask]
    /\ rl_stats = [total_requests |-> 0, blocked_requests |-> 0,
                   unique_clients |-> {}, rate_limit_hits |-> 0]
    /\ client_stats = <<>>
    /\ rlChecks = 0
    /\ rlDone = <<>>
    /\ rlLast = NoResult
    /\ service_stats \in ServiceStats
    /\ system_metrics \in SystemMetrics
    /\ external_services \in ExternalServices
    /\ overall_health = ""

\* checks made one after another over a working store
RLSeqNext ==
    \/ \E c \in Clients : StartAlone(c)
    \/ \E t \in Tasks : Get(t, TRUE)
    \/ \E t \in Tasks : Incr(t, TRUE)
    \/ \E t \in Tasks : SetTtl(t, TRUE)
    \/ \E c \in Clients : CheckInMemory(c)
    \/ TickBetweenChecks

\* concurrent checks of one client over a working store
RLConcNext ==
    \/ \E t \in Tasks, c \in SameClient : Start(t, c)
    \/ \E t \in Tasks : Get(t, TRUE)
    \/ \E t \in Tasks : Incr(t, TRUE)
    \/ \E t \in Tasks : SetTtl(t, TRUE)
    \/ \E c \in SameClient : CheckInMemory(c)
    \/ RLTick

\* concurrent checks of one client over a store whose commands may fail
RLFailNext ==
    \/ \E t \in Tasks, c \in SameClient : Start(t, c)
    \/ \E t \in Tasks, ok \in BOOLEAN : Get(t, ok)
    \/ \E t \in Tasks, ok \in BOOLEAN : Incr(t, ok)
    \/ \E t \in Tasks, ok \in BOOLEAN : SetTtl(t, ok)
    \/ \E c \in SameClient : CheckInMemory(c)
    \/ RLTick

\* register, deregister and discover calls while the probe loop runs
SDNext ==
    \/ \E id \in ServiceIds, supplied \in BOOLEAN, d \in Descriptors :
           register_service(id, supplied, d.name, d.tags, d.health_endpoint)
    \/ \E id \in ServiceIds : deregister_service(id)
    \/ \E name \in ServiceNames, tags \in TagSets : Discover(name, tags)
    \/ BeginProbes
    \/ \E obj \in 1..MaxSdOps, answer \in ProbeAnswers :
           CheckServiceHealth(obj, answer.outcome, answer.latency)
    \/ EndProbes

\* sessions are accepted, send and close frames, and are written to from
\* outside, while the idle sweep runs
WSNext ==
    \/ \E k \in ConnIds, ok \in BOOLEAN : Accept(k, ok)
    \/ \E k \in ConnIds : ClientClose(k)
    \/ \E k \in ConnIds, kind \in {"ping", "invalid"} : Receive(k, kind)
    \/ \E k \in ConnIds : ReceiveClosed(k)
    \/ \E c \in ConnIds : Send(c)
    \/ \E t \in WsTaskIds, ok \in BOOLEAN : SendDone(t, ok)
    \/ \E t \in WsTaskIds : CloseDone(t)
    \/ Sweep
    \/ WSTick

(***************************************************************************)
(* Specifications.                                                         *)
(***************************************************************************)
SpecCB == CBInit /\ [][CBNext]_vars

SpecRLSeq == RLInit /\ [][RLSeqNext]_vars

SpecRLConc == RLInit /\ [][RLConcNext]_vars

SpecRLFail == RLInit /\ [][RLFailNext]_vars

SpecSD == SDInit /\ [][SDNext]_vars

SpecWS == WSInit /\ [][WSNext]_vars

\* sessions are accepted and send frames of every kind while the idle sweep
\* runs
SpecWSFrames ==
    WSInit /\ [][\/ \E k \in ConnIds, ok \in BOOLEAN : Accept(k, ok)
                 \/ \E k \in ConnIds : ClientClose(k)
                 \/ \E k \in ConnIds, kind \in FrameKinds : Receive(k, kind)
                 \/ \E k \in ConnIds : ReceiveClosed(k)
                 \/ \E t \in WsTaskIds, ok \in BOOLEAN : SendDone(t, ok)
                 \/ \E t \in WsTaskIds : CloseDone(t)
                 \/ Sweep
                 \/ WSTick]_vars

\* sessions are accepted and closed while broadcasts are made and single
\* messages are sent
SpecWSBroadcast ==
    WSInit /\ [][\/ \E k \in ConnIds, ok \in BOOLEAN : Accept(k, ok)
                 \/ \E k \in ConnIds : ClientClose(k)
                 \/ \E k \in ConnIds : ReceiveClosed(k)
                 \/ \E c \in ConnIds : Send(c)
                 \/ \E exclude \in SUBSET ConnIds : broadcast_message(exclude)
                 \/ \E t \in WsTaskIds, ok \in BOOLEAN : SendDone(t, ok)
                 \/ \E t \in WsTaskIds : CloseDone(t)]_vars

\* the manager is shut down while sessions are accepted, send pings and
\* close, and while the idle sweep runs
SpecWSShutdown ==
    WSInit /\ [][\/ \E k \in ConnIds, ok \in BOOLEAN : Accept(k, ok)
                 \/ \E k \in ConnIds : ClientClose(k)
                 \/ \E k \in ConnIds : Receive(k, "ping")
                 \/ \E k \in ConnIds : ReceiveClosed(k)
                 \/ \E t \in WsTaskIds, ok \in BOOLEAN : SendDone(t, ok)
                 \/ \E t \in WsTaskIds : CloseDone(t)
                 \/ Sweep
                 \/ shutdown
                 \/ WSTick]_vars

\* sessions are accepted and given a user and a session, send pings and
\* are closed, by a failed write or by the idle sweep
SpecWSIndex ==
    WSInit /\ [][\/ \E k \in ConnIds, ok \in BOOLEAN : Accept(k, ok)
                 \/ \E k \in ConnIds, session_id \in {"", "n1"} :
                        Associate(k, "u1", session_id)
                 \/ \E k \in ConnIds : Receive(k, "ping")
                 \/ \E k \in ConnIds : ReceiveClosed(k)
                 \/ \E t \in WsTaskIds, ok \in BOOLEAN : SendDone(t, ok)
                 \/ \E t \in WsTaskIds : CloseDone(t)
                 \/ Sweep
                 \/ WSTick]_vars

\* sessions are accepted and send pings while single messages are sent,
\* broadcasts are made and the idle sweep runs
SpecWSTables ==
    WSInit /\ [][\/ \E k \in ConnIds, ok \in BOOLEAN : Accept(k, ok)
                 \/ \E k \in ConnIds : Receive(k, "ping")
                 \/ \E c \in ConnIds : Send(c)
                 \/ \E exclude \in {{}, {"k1"}} : broadcast_message(exclude)
                 \/ \E t \in WsTaskIds, ok \in BOOLEAN : SendDone(t, ok)
                 \/ \E t \in WsTaskIds : CloseDone(t)
                 \/ Sweep
                 \/ WSTick]_vars

\* sessions are accepted, send pings and text_input messages and are closed
\* while single messages are sent to them
SpecWSHandlers ==
    WSInit /\ [][\/ \E k \in ConnIds, ok \in BOOLEAN : Accept(k, ok)
                 \/ \E k \in ConnIds : ClientClose(k)
                 \/ \E k \in ConnIds, kind \in {"ping", "text_input"} :
                        Receive(k, kind)
                 \/ \E k \in ConnIds : Wake(k)
                 \/ \E k \in ConnIds : ReceiveClosed(k)
                 \/ \E c \in ConnIds : Send(c)
                 \/ \E t \in WsTaskIds, ok \in BOOLEAN : SendDone(t, ok)
                 \/ \E t \in WsTaskIds : CloseDone(t)]_vars

\* the three background loops: the probe loop over registered instances,
\* with iterations that raise, or the heartbeat and the sweep over accepted
\* sessions (which all begin at the start of the run), until a shutdown.
\* The two services share no state, and a run follows one of them.  The
\* event loop runs a loop whose sleep has ended.
SpecLoops ==
    /\ SDInit
    /\ [][\/ \E id \in ServiceIds, d \in Descriptors :
                /\ wsLast.op = "init"
                /\ d.tags = {}
                /\ d.health_endpoint # ""
                /\ register_service(id, TRUE, d.name, d.tags, d.health_endpoint)
          \/ wsLast.op = "init" /\ BeginProbes
          \/ \E obj \in 1..MaxSdOps, answer \in ProbeAnswers :
                /\ wsLast.op = "init"
                /\ CheckServiceHealth(obj, answer.outcome, answer.latency)
          \/ wsLast.op = "init" /\ EndProbes
          \/ wsLast.op = "init" /\ ProbesRaised
          \/ wsLast.op = "init" /\ ShutdownDiscovery
          \/ \E k \in ConnIds :
                sdLast.op = "init" /\ wsNow = 0 /\ Accept(k, TRUE)
          \/ \E t \in WsTaskIds, ok \in BOOLEAN :
                sdLast.op = "init" /\ SendDone(t, ok)
          \/ \E t \in WsTaskIds : sdLast.op = "init" /\ CloseDone(t)
          \/ sdLast.op = "init" /\ Sweep
          \/ /\ sdLast.op = "init"
             /\ running /\ active_connections # {} /\ broadcast_message({})
          \/ sdLast.op = "init" /\ shutdown
          \/ sdLast.op = "init" /\ WSTick]_vars
    /\ WF_vars(wsLast.op = "init" /\ BeginProbes)
    /\ WF_vars(sdLast.op = "init" /\ Sweep)
    /\ WF_vars(/\ sdLast.op = "init"
               /\ running /\ active_connections # {} /\ broadcast_message({}))

SpecHC == HCInit /\ [][get_system_health]_vars

\* register and deregister calls (of instances without tags, which no probe
\* reads) while the probe loop runs; the event loop runs every task that can
\* run, and the request of a probe ends (with an answer, an error or its
\* timeout)
SpecSDFair ==
    /\ SDInit
    /\ [][\/ \E id \in ServiceIds, supplied \in BOOLEAN,
                 d \in {x \in Descriptors : x.tags = {}} :
                  register_service(id, supplied, d.name, d.tags,
                                   d.health_endpoint)
          \/ \E id \in ServiceIds : deregister_service(id)
          \/ BeginProbes
          \/ \E obj \in 1..MaxSdOps, answer \in ProbeAnswers :
                  CheckServiceHealth(obj, answer.outcome, answer.latency)
          \/ EndProbes]_vars
    /\ WF_vars(\E obj \in 1..MaxSdOps, answer \in ProbeAnswers :
                  CheckServiceHealth(obj, answer.outcome, answer.latency))
    /\ WF_vars(EndProbes)

(***************************************************************************)
(* Claims about the Circuit Breaker Manager (checked under SpecCB).        *)
(***************************************************************************)
CircuitOpen == "CircuitBreakerOpenError"

\* the step just taken began a call for n / ended a call for n
BeganCall(n) == cbLast'.op = "call" /\ cbLast'.name = n

EndedCall(n) == cbLast'.op \in {"return", "return_detached"} /\ cbLast'.name = n

\* the number of wrapped operations running for the breaker in the table
Running(table, n) == IF n \in DOMAIN table THEN table[n].inflight ELSE 0

\* the breaker of n has been failed failure_threshold times in a row since
\* it was created
FailedThresholdTimes(n) ==
    /\ n \in DOMAIN stats
    /\ cbFresh[n] = stats[n].failure_threshold

\* C1: after failure_threshold consecutive failed calls on a fresh breaker the
\* recorded state is open, and a call begun before recovery_timeout has
\* passed since the last failure is rejected with the circuit-open error and
\* starts no operation.
C1_OpensAndRejects ==
    [][\A n \in Names :
         /\ FailedThresholdTimes(n)' => stats'[n].state = OPEN
         /\ ( /\ FailedThresholdTimes(n)
              /\ cbNow < stats[n].last_failure_time + stats[n].recovery_timeout
              /\ BeganCall(n) )
            => /\ cbLast'.result = CircuitOpen
               /\ Running(circuit_breakers', n) = Running(circuit_breakers, n)
      ]_vars

\* a breaker with threshold 2 was failed twice and the third call was rejected
C1_Witness ==
    \E n \in DOMAIN stats :
        /\ cbLast = [op |-> "call", name |-> n, result |-> CircuitOpen]
        /\ stats[n].failure_threshold = 2
        /\ stats[n].failure_count = 2
        /\ stats[n].total_calls = 3
        /\ stats[n].state = OPEN

\* the recorded state says open and recovery_timeout has passed since the
\* recorded last failure
RecoveryElapsed(n) ==
    /\ n \in DOMAIN stats
    /\ stats[n].state = OPEN
    /\ stats[n].last_failure_time # NoTime
    /\ cbNow >= stats[n].last_failure_time + stats[n].recovery_timeout

\* the step just taken is the successful end of a trial call of n: the call
\* ran on the breaker in the table while the record said half_open
TrialSucceeded(n) ==
    /\ n \in DOMAIN stats
    /\ stats[n].state = HALF_OPEN
    /\ cbLast'.op = "return" /\ cbLast'.name = n /\ cbLast'.result = "ok"

C3_ErrorsDistinguishTriedFromNotTried ==
    [][\A n \in Names :
         /\ (BeganCall(n) /\ cbLast'.result # "pending")
            => cbLast'.result = CircuitOpen
         /\ EndedCall(n) => cbLast'.result # CircuitOpen
         /\ (EndedCall(n) /\ cbLast'.result # "ok")
            => /\ cbLast'.result = "ExternalServiceError"
               /\ n \in DOMAIN stats => /\ n \in DOMAIN stats'
                                        /\ stats'[n].failure_count =
                                               stats[n].failure_count + 1
      ]_vars

\* C4: a rejected call adds 1 to total_calls and changes nothing else: not
\* the other counters, not the timestamps, not the state, not the breaker.
C4_RejectionCountsAttemptOnly ==
    [][\A n \in Names :
         (BeganCall(n) /\ cbLast'.result = CircuitOpen)
         => /\ n \in DOMAIN stats
            /\ stats' = [stats EXCEPT ![n].total_calls = @ + 1]
            /\ circuit_breakers' = circuit_breakers
            /\ detached' = detached
      ]_vars

\* a call was rejected on a record that already shows the failures
C4_Witness ==
    \E n \in DOMAIN stats :
        /\ cbLast = [op |-> "call", name |-> n, result |-> CircuitOpen]
        /\ stats[n].last_failure_time # NoTime
        /\ stats[n].failure_count > 0

\* C5: failure_count and success_count of a record never decrease except
\* that an explicit reset of that breaker lowers failure_count.
C5_CountersMonotonic ==
    [][\A n \in (DOMAIN stats) \cap (DOMAIN stats') :
         /\ stats'[n].success_count >= stats[n].success_count
         /\ ~(cbLast'.op = "reset" /\ cbLast'.name = n)
            => stats'[n].failure_count >= stats[n].failure_count
      ]_vars

\* a breaker was opened, recovered through a successful trial call and is
\* closed with its failures still counted
C5_Witness ==
    \E n \in DOMAIN stats :
        /\ stats[n].state = CLOSED
        /\ stats[n].success_count > 0
        /\ stats[n].failure_count >= stats[n].failure_threshold
        /\ circuit_breakers[n].lib_failure_count = 0

\* C6: reset of an existing breaker returns true and leaves it closed with
\* failure_count 0, and a call that follows it is not rejected; reset of a
\* name without breaker returns false and changes no table.
C6_ResetCloses ==
    [][\A n \in Names :
         /\ (cbLast'.op = "reset" /\ cbLast'.name = n)
            => IF n \in DOMAIN circuit_breakers
               THEN /\ cbLast'.result = "True"
                    /\ stats'[n].state = CLOSED
                    /\ stats'[n].failure_count = 0
                    /\ circuit_breakers'[n].lib_state = CLOSED
               ELSE /\ cbLast'.result = "False"
                    /\ stats' = stats
                    /\ circuit_breakers' = circuit_breakers
                    /\ detached' = detached
         /\ ( /\ cbLast.op = "reset" /\ cbLast.name = n /\ cbLast.result = "True"
              /\ BeganCall(n) )
            => cbLast'.result = "pending"
      ]_vars

\* a breaker that two failures had opened has just been reset
C6_Witness ==
    \E n \in DOMAIN stats :
        /\ cbLast = [op |-> "reset", name |-> n, result |-> "True"]
        /\ stats[n].failure_threshold = 2
        /\ stats[n].total_calls = 2
        /\ stats[n].success_count = 0
        /\ circuit_breakers[n].inflight = 0
        /\ stats[n].last_success_time = NoTime

\* C7: the health summary counts the records per state, lists exactly the
\* open ones, and is healthy with no open breaker (also with no breaker),
\* degraded with some but not all open, unhealthy with all open.
C7_HealthSummary ==
    /\ closed_breakers = Cardinality({n \in DOMAIN stats : stats[n].state = CLOSED})
    /\ closed_breakers + open_breakers + half_open_breakers = Cardinality(DOMAIN stats)
    /\ open_breakers_list = {n \in Names : n \in DOMAIN stats /\ stats[n].state = OPEN}
    /\ LET nOpen == Cardinality({n \in DOMAIN stats : stats[n].state = OPEN})
           nAll  == Cardinality(DOMAIN stats)
       IN  /\ nOpen = 0 => health_status = "healthy"
           /\ (0 < nOpen /\ nOpen < nAll) => health_status = "degraded"
           /\ (0 < nOpen /\ nOpen = nAll) => health_status = "unhealthy"

\* two breakers, one of them open: the summary is degraded
C7_Witness ==
    /\ Cardinality(DOMAIN stats) = 2
    /\ Cardinality({n \in DOMAIN stats : stats[n].state = OPEN}) = 1
    /\ health_status = "degraded"

(***************************************************************************)
(* Claims about the Rate Limiter.                                          *)
(***************************************************************************)
\* the key of the check that the step just taken decided
DecidedKey == <<rlLast'.client_id, rlLast'.window>>

\* C8: with checks made one after another over a working store, a check is
\* admitted exactly when fewer than max_requests checks of its client were
\* decided before it in its window (so the first max_requests are admitted,
\* the later ones denied, and the first one of the next window admitted),
\* and a denial carries retry_after > 0.  (Checked under SpecRLSeq.)
C8_FirstMaxRequestsAdmitted ==
    [][rlLast'.done
       => /\ rlLast'.allowed <=> DoneFor(rlDone, DecidedKey).checks < max_requests
          /\ ~rlLast'.allowed => rlLast'.retry_after > 0
      ]_vars

\* C9: with every store command succeeding, no interleaving of the checks of
\* one client admits more than max_requests of them in one window.  Stated
\* for the Redis-backed store, where a check is suspended at each command.
\* (Checked under SpecRLConc.)
C9_AtMostMaxRequestsAdmitted ==
    connected => \A at \in DOMAIN rlDone :
                     DoneFor(rlDone, KeyOf(at[1], at[2])).admitted <= max_requests

\* C10: a check during which a store command failed is admitted, whichever
\* command it was and whatever the counter held; every check ends with an
\* answer.  (Checked under SpecRLFail.)
C10_FailsOpen ==
    [][rlLast'.done
       => /\ rlLast'.failed # {} => (rlLast'.allowed /\ rlLast'.retry_after = 0)
          /\ rlLast'.allowed \in BOOLEAN
      ]_vars

\* a check whose get failed has just been admitted on top of the
\* max_requests checks admitted in its window before it
C10_Witness ==
    /\ rlLast.done /\ rlLast.allowed /\ "get" \in rlLast.failed
    /\ DoneFor(rlDone, <<rlLast.client_id, rlLast.window>>).admitted
           = max_requests + 1

\* C11: a denial of a check that read the time `now` reports
\* retry_after = window_seconds - (now mod window_seconds), which lies in
\* 1..window_seconds, and the times whose checks count on the key that
\* caused the denial are exactly the window_seconds seconds that end at
\* now + retry_after.  (Checked under SpecRLConc.)
C11_RetryAfterEndsWindow ==
    [][(rlLast'.done /\ ~rlLast'.allowed)
       => LET now == rlLast'.current_time
              ra  == rlLast'.retry_after
          IN  /\ ra = window_seconds - (now % window_seconds)
              /\ 1 <= ra /\ ra <= window_seconds
              /\ \A t \in 0..(RLMaxTime + window_seconds) :
                     KeyOf(rlLast'.client_id, t) = DecidedKey
                     <=> (now + ra - window_seconds <= t /\ t < now + ra)
      ]_vars

\* a check made in the last second of a window of 3 seconds was denied
C11_Witness ==
    /\ rlLast.done /\ ~rlLast.allowed
    /\ window_seconds = 3
    /\ rlLast.current_time = 2
    /\ rlLast.retry_after = 1

\* the checks of client c admitted at the window_seconds seconds from `from`
AdmittedIn(c, from) ==
    SumDone(rlDone, {at \in DOMAIN rlDone :
                        /\ at[1] = c
                        /\ from <= at[2] /\ at[2] < from + window_seconds}).admitted

\* C12: with checks made one after another over a working store, a client
\* is admitted at most 2 x max_requests times within any window_seconds
\* consecutive seconds (the count a burst across a window boundary can
\* reach).  (Checked under SpecRLSeq.)
C12_AtMostTwiceMaxRequests ==
    \A c \in Clients, from \in 0..RLMaxTime :
        AdmittedIn(c, from) <= 2 * max_requests

(***************************************************************************)
(* Claims about Service Discovery (checked under SpecSD).                  *)
(***************************************************************************)
\* the instances a request for name looks among, as positions of the table
Named(name) == {i \in Positions(services) : services[i].name = name}

\* those of them that carry every requested tag
Matching(name, tags) == {i \in Named(name) : tags \subseteq services[i].tags}

HealthyMatching(name, tags) ==
    {i \in Matching(name, tags) : services[i].health_status = "healthy"}

\* C13: after any sequence of register and deregister calls, the ids of
\* the instances list() returns are exactly the ids registered and not
\* deregistered since.
C13_ListIsRegistered ==
    {get_all_services[i] : i \in DOMAIN get_all_services} = sdRegistered

\* two instances were registered and the first of them deregistered: the
\* list holds the second alone
C13_Witness ==
    /\ sdLast.op = "deregister" /\ sdLast.result = "True"
    /\ sdLast.id = "s1"
    /\ sdRegistered = {"s2"}
    /\ get_all_services = <<"s2">>

\* C14: whenever some instance with the requested name and every requested
\* tag is healthy, discover returns a healthy such instance whose latency
\* is the lowest among them, whatever the latencies are (0 included).
C14_DiscoverLowestLatency ==
    \A name \in ServiceNames, tags \in TagSets :
        HealthyMatching(name, tags) # {}
        => \E i \in HealthyMatching(name, tags) :
               /\ discover_service(name, tags) = services[i].id
               /\ \A j \in HealthyMatching(name, tags) :
                      services[i].response_time_ms <= services[j].response_time_ms

\* C15: when instances have the requested name and none of them is
\* healthy, discover returns one of them, not nothing (so also after the
\* only healthy instance of the name was deregistered).
C15_DiscoverFallsBack ==
    \A name \in ServiceNames, tags \in TagSets :
        (/\ Named(name) # {}
         /\ \A i \in Named(name) : services[i].health_status # "healthy")
        => \E i \in Named(name) : discover_service(name, tags) = services[i].id

\* C16: discover returns nothing only when no registered instance has the
\* requested name, with or without a tag filter in the request.
C16_NothingOnlyForUnknownName ==
    \A name \in ServiceNames, tags \in TagSets :
        discover_service(name, tags) = NoService => Named(name) = {}

(***************************************************************************)
(* Claims about the WebSocket Manager (checked under SpecWS).              *)
(***************************************************************************)
\* the ids get_connection_stats lists in connection_details
StatsIds == InfoIds(connection_info)

\* the ids held by some set of the user or session index
IndexedIds ==
    UNION ({user_connections[u] : u \in DOMAIN user_connections}
           \cup {session_connections[s] : s \in DOMAIN session_connections})

\* C17: when the client has closed the session and the receive loop has
\* seen it, handle_connection returns with the connection's id in neither
\* the connection table nor the connection stats.
C17_ClientCloseDestroys ==
    [][(wsLast'.op = "returned" /\ wsLast'.result = "client_closed")
       => /\ wsLast'.conn \notin active_connections'
          /\ wsLast'.conn \notin StatsIds'
      ]_vars

\* the connections whose last activity the sweep saw more than the idle
\* timeout before its current_time
SawInactive ==
    {k \in DOMAIN wsSweep.seen :
        wsSweep.current_time - wsSweep.seen[k] > IdleTimeout}

\* C18: when an idle sweep ends, every connection it saw with
\* now - last_activity > idle_timeout is absent from the connection stats,
\* the connection table and the user and session indexes, and the sweep has
\* disconnected no other connection.
C18_SweepRemovesExactlyIdle ==
    [][wsLast'.op = "swept"
       => /\ \A k \in SawInactive' :
                 /\ k \notin StatsIds'
                 /\ k \notin active_connections'
                 /\ k \notin IndexedIds'
          /\ wsSweep'.called = SawInactive'
      ]_vars

\* C19: a send to a connection in the table whose transport write succeeds
\* returns true with the connection still in the table; one whose write
\* fails returns false with the connection out of the table.
C19_SendReportsWrite ==
    [][/\ (wsLast'.op = "send" /\ wsLast'.write = "ok")
          => /\ wsLast'.result = "True"
             /\ wsLast'.conn \in active_connections'
       /\ (wsLast'.op = "send" /\ wsLast'.write = "failed")
          => /\ wsLast'.result = "False"
             /\ wsLast'.conn \notin active_connections'
      ]_vars

\* C20: a send to an id that is not in the connection table returns false
\* (it raises nothing), writes to no transport and changes no table, index
\* or counter.
C20_SendToUnknownId ==
    [][(/\ wsOps' = wsOps + 1
        /\ wsLast'.op \in {"send", "sending"}
        /\ wsLast'.conn \notin active_connections)
       => /\ wsLast'.op = "send"
          /\ wsLast'.result = "False"
          /\ wsLast'.write = "none"
          /\ wsTasks' = wsTasks
          /\ UNCHANGED <<transport, active_connections, connection_info,
                         user_connections, session_connections, ws_stats>>
      ]_vars

\* a send to an id that is not in the table, which holds another
\* connection, has returned false
C20_Witness ==
    /\ wsLast.op = "send" /\ wsLast.write = "none" /\ wsLast.result = "False"
    /\ wsLast.conn \notin active_connections
    /\ active_connections # {}

(***************************************************************************)
(* Further claims about the Circuit Breaker Manager (checked under SpecCB).*)
(***************************************************************************)
\* the step just taken changed the recorded state of n from `from` to `to`
Moved(n, from, to) ==
    /\ n \in DOMAIN stats /\ n \in DOMAIN stats'
    /\ stats[n].state = from /\ stats'[n].state = to

\* the step just taken ended a call that ran on the breaker of n in the table
EndedOwnCall(n) == cbLast'.op = "return" /\ cbLast'.name = n

\* C25: the recorded state of a breaker changes only closed to open on a
\* failed call that brings the breaker's failure count to failure_threshold,
\* open to half_open once recovery_timeout has passed since the recorded last
\* failure, half_open to closed on a successful trial call, half_open to
\* open on a failed trial call that restarts the timer, and to closed by
\* reset.
C25_TransitionsOnly ==
    [][\A n \in (DOMAIN stats) \cap (DOMAIN stats') :
         stats'[n].state # stats[n].state
         => \/ /\ Moved(n, CLOSED, OPEN)
               /\ EndedOwnCall(n) /\ cbLast'.result # "ok"
               /\ circuit_breakers'[n].lib_failure_count
                      >= stats[n].failure_threshold
            \/ /\ Moved(n, OPEN, HALF_OPEN)
               /\ cbNow >= stats[n].last_failure_time + stats[n].recovery_timeout
            \/ /\ Moved(n, HALF_OPEN, CLOSED)
               /\ EndedOwnCall(n) /\ cbLast'.result = "ok"
            \/ /\ Moved(n, HALF_OPEN, OPEN)
               /\ EndedOwnCall(n) /\ cbLast'.result # "ok"
               /\ stats'[n].last_failure_time = cbNow
            \/ /\ stats'[n].state = CLOSED
               /\ cbLast'.op = "reset" /\ cbLast'.name = n
      ]_vars

\* C26: in every reachable state a record whose state is closed has a
\* failure_count strictly below its failure_threshold.
C26_ClosedBelowThreshold ==
    \A n \in DOMAIN stats :
        stats[n].state = CLOSED
        => stats[n].failure_count < stats[n].failure_threshold

\* C27: a call for a name that has a record is rejected with the
\* circuit-open error if and only if the recorded state of that name, as
\* get_circuit_breaker_state reports it when the call arrives, is open.
C27_RecordDecidesRejection ==
    [][\A n \in DOMAIN stats :
         BeganCall(n)
         => (cbLast'.result = CircuitOpen <=> stats[n].state = OPEN)
      ]_vars

\* the entry of m in a table is as it was, or absent as it was
SameEntry(before, after, m) ==
    IF m \in DOMAIN before
    THEN m \in DOMAIN after /\ after[m] = before[m]
    ELSE m \notin DOMAIN after

\* C28: a call (its begin or its end), reset or remove for one name leaves
\* the record, the breaker and every running call of each other name as
\* they were, so a call for another name is rejected after it exactly if it
\* was before.
C28_IsolatedPerName ==
    [][\A m \in Names :
         (cbLast'.op # "tick" /\ cbLast'.name # m)
         => /\ SameEntry(stats, stats', m)
            /\ SameEntry(circuit_breakers, circuit_breakers', m)
            /\ SameEntry(detached, detached', m)
            /\ m \in DOMAIN circuit_breakers
               => (IsRejected(circuit_breakers'[m], cbNow')
                   <=> IsRejected(circuit_breakers[m], cbNow))
      ]_vars

\* a failed call has just opened the breaker of one name while another name
\* has a closed breaker with a call counted
C28_Witness ==
    \E n \in DOMAIN stats : \E m \in (DOMAIN stats) \ {n} :
        /\ cbLast = [op |-> "return", name |-> n,
                     result |-> "ExternalServiceError"]
        /\ stats[n].state = OPEN
        /\ stats[m].state = CLOSED
        /\ stats[m].total_calls = 1
        /\ stats[m].failure_count = 0

(***************************************************************************)
(* Further claims about Service Discovery (checked under SpecSD).          *)
(***************************************************************************)
\* the step just taken ended the probe task of the ServiceInfo object obj
ProbeEnded(obj) ==
    /\ sdLast'.op = "probe"
    /\ obj \in DOMAIN probes /\ obj \notin DOMAIN probes'

\* the ServiceInfo object obj as the table holds it (at most one entry)
InTable(svcs, obj) == {svcs[i] : i \in {j \in Positions(svcs) : svcs[j].obj = obj}}

\* C29: for an instance in the table, a probe answered with 200 sets
\* consecutive_failures to 0, a probe answered with another status or ended
\* by an error adds exactly 1 to it, and no other step changes it.
C29_ConsecutiveFailures ==
    [][\A obj \in 1..MaxSdOps :
         \A s \in InTable(services, obj) : \A t \in InTable(services', obj) :
            IF ProbeEnded(obj) /\ sdLast'.result = "200"
            THEN t.consecutive_failures = 0
            ELSE IF ProbeEnded(obj) /\ sdLast'.result \in {"other", "error"}
            THEN t.consecutive_failures = s.consecutive_failures + 1
            ELSE t.consecutive_failures = s.consecutive_failures
      ]_vars

\* the second probe of an instance has failed like the first
C29_Witness ==
    /\ sdLast.op = "probe" /\ sdLast.result \in {"other", "error"}
    /\ \E i \in Positions(services) :
           /\ services[i].consecutive_failures = 2
           /\ services[i].last_health_check = 2

\* C30: when the probe task of an instance in the table ends, the instance
\* is healthy with the latency recorded after a 200, degraded after another
\* status, unhealthy after an error, and in every case its last_health_check
\* is stamped in the running cycle.
C30_ProbeSetsStatusAndStamp ==
    [][\A obj \in 1..MaxSdOps :
         ProbeEnded(obj)
         => \A t \in InTable(services', obj) :
               /\ t.last_health_check = sdCycles
               /\ sdLast'.result \in {"200", "other", "error"}
               /\ sdLast'.result = "200"
                  => /\ t.health_status = "healthy"
                     /\ t.response_time_ms \in Latencies
               /\ sdLast'.result = "other" => t.health_status = "degraded"
               /\ sdLast'.result = "error" => t.health_status = "unhealthy"
      ]_vars

(***************************************************************************)
(* Claims about the Health Check Service (checked under SpecHC).           *)
(***************************************************************************)
\* C24: the overall status of a report is unhealthy if the resource sampling
\* failed; otherwise degraded if the memory, cpu or disk usage is above 90,
\* or the registry counts more unhealthy than healthy services, or some
\* sampled external service is unhealthy; otherwise healthy.
C24_OverallHealth ==
    overall_health # ""
    => overall_health =
           IF "error" \in DOMAIN system_metrics THEN "unhealthy"
           ELSE IF \/ \E r \in {"memory", "cpu", "disk"} : system_metrics[r] > 90
                   \/ service_stats.unhealthy_services
                          > service_stats.healthy_services
                   \/ \E k \in DOMAIN external_services :
                          external_services[k] = "unhealthy"
                THEN "degraded"
                ELSE "healthy"

\* a report is healthy with the memory at 90, as many unhealthy services as
\* healthy ones and an external service that is degraded
C24_Witness ==
    /\ overall_health = "healthy"
    /\ system_metrics = [memory |-> 90, cpu |-> 0, disk |-> 0]
    /\ service_stats = [healthy_services |-> 1, unhealthy_services |-> 1]
    /\ external_services = [k \in {"openai"} |-> "degraded"]

(***************************************************************************)
(* Further claims about the WebSocket Manager.                             *)
(***************************************************************************)
\* the step just taken ended a broadcast_message
BroadcastEnded ==
    /\ wsBroadcast' # wsBroadcast
    /\ wsBroadcast'.status \in {"returned", "KeyError"}

\* C21 (checked under SpecWSBroadcast): a broadcast ends by returning; it
\* has then called send_message on every connection that was in the table
\* when it started and is not excluded, has written to none that is
\* excluded, and returns the number of connections it wrote to.
C21_BroadcastCounts ==
    [][BroadcastEnded
       => LET b == wsBroadcast'
          IN  /\ b.status = "returned"
              /\ b.attempted = b.start \ b.exclude
              /\ b.written \subseteq b.start \ b.exclude
              /\ b.sent_count = Cardinality(b.written)
              /\ b.sent_count <= Cardinality(b.start \ b.exclude)
      ]_vars

\* the answers that are error messages
ErrorAnswers == {"error_reply", "handler_error"}

\* C22 (checked under SpecWSFrames): while the manager is running, a frame
\* that is no message, a message of a type without handler and a message
\* whose handler raises, received on a connection in the table, are each
\* answered with an error message to that connection; when the write of the
\* answer succeeds the connection is still in the table with its transport
\* open and the receive loop waits for the next frame.
C22_ErrorReplies ==
    [][\A k \in ConnIds :
         /\ ( /\ wsLast'.op = "receive" /\ wsLast'.conn = k
              /\ wsLast'.result \in {"invalid", "unknown", "raises"}
              /\ k \in active_connections )
            => /\ wsTasks'[k].pc = "send"
               /\ wsTasks'[k].conn = k
               /\ wsTasks'[k].after \in ErrorAnswers
               /\ k \in active_connections'
               /\ transport'[k] = "open"
         /\ ( /\ wsTasks[k].pc = "send" /\ wsTasks[k].after \in ErrorAnswers
              /\ wsTasks'[k] # wsTasks[k]
              /\ wsLast'.write = "ok" )
            => /\ wsLast' = WsResult("send", k, "ok", "True")
               /\ ws_stats'.messages_sent = ws_stats.messages_sent + 1
               /\ k \in active_connections'
               /\ transport'[k] = "open"
               /\ wsTasks'[k].pc = "receive"
      ]_vars

\* a connection has sent a frame that is no message, has been sent the
\* welcome and the error, and its next frame, of a type without handler, is
\* being answered
C22_Witness ==
    \E k \in active_connections :
        /\ wsLast = WsResult("receive", k, "none", "unknown")
        /\ wsOps = 2
        /\ ws_stats.messages_sent = 2
        /\ InfoOf(connection_info, k).message_count = 1
        /\ wsTasks[k].pc = "send" /\ wsTasks[k].after = "handler_error"

\* C23 (checked under SpecWSShutdown): when shutdown ends it has completed,
\* the heartbeat and the cleanup task have ended, no connection's transport
\* is open and the socket table is empty.
C23_ShutdownClosesAll ==
    [][wsLast'.op = "shutdown"
       => /\ wsLast'.result = "done"
          /\ wsTasks'["sweep"].pc = "returned"
          /\ wsTasks'["broadcast"].pc = "returned"
          /\ \A k \in ConnIds : transport'[k] # "open"
          /\ active_connections' = {}
      ]_vars

(***************************************************************************)
(* Claims about the counters of the Circuit Breaker Manager (checked       *)
(* under SpecCB).                                                          *)
(***************************************************************************)
\* C40: in every reachable state every breaker record has
\* total_calls >= success_count + failure_count.
C40_AttemptsCoverOutcomes ==
    \A n \in DOMAIN stats :
        stats[n].total_calls >= stats[n].success_count + stats[n].failure_count

(***************************************************************************)
(* Claims about the table and the stats of Service Discovery (checked      *)
(* under SpecSD).                                                          *)
(***************************************************************************)
\* the instances of the table whose health_status is status
WithStatus(status) ==
    {i \in Positions(services) : services[i].health_status = status}

\* C37: whenever no probe cycle is under way, total_services is the number
\* of instances in the table, and healthy_services and unhealthy_services
\* are the numbers of instances in the table whose status is healthy and
\* unhealthy.
C37_StatsAgreeWithTable ==
    ~cycle
    => /\ sd_stats.total_services = Len(services)
       /\ sd_stats.healthy_services = Cardinality(WithStatus("healthy"))
       /\ sd_stats.unhealthy_services = Cardinality(WithStatus("unhealthy"))

\* the step just taken was a call of register_service
Registered == sdLast'.op = "register" /\ sdObjects' = sdObjects + 1

\* C38: a register call, with or without an id of the caller's, leaves every
\* instance of the table in it with its fields unchanged and adds exactly one
\* instance, whose status is unknown and whose consecutive_failures is 0.
C38_RegisterOnlyAdds ==
    [][Registered
       => /\ Len(services') = Len(services) + 1
          /\ SubSeq(services', 1, Len(services)) = services
          /\ services'[Len(services')].health_status = "unknown"
          /\ services'[Len(services')].consecutive_failures = 0
      ]_vars

\* the ids get_service, get_all_services and discover_service can return
Visible ==
    ServiceIdsOf(services)
    \cup {get_all_services[i] : i \in DOMAIN get_all_services}
    \cup {discover_service(name, tags) : name \in ServiceNames, tags \in TagSets}

\* C39: the end of the probe task of an instance that was deregistered
\* while the task ran puts nothing into the table, and after every step an
\* id that was deregistered and not registered since is returned by none of
\* get, list and discover.
C39_ProbeDoesNotBringBack ==
    [][/\ \A obj \in 1..MaxSdOps :
            (ProbeEnded(obj) /\ InTable(services, obj) = {})
            => services' = services
       /\ \A service_id \in ServiceIds \ sdRegistered' :
            service_id \notin Visible'
      ]_vars

\* the only instance was deregistered while its probe ran, and the probe
\* has ended since with a 200
C39_Witness ==
    /\ cycle
    /\ sdLast.op = "probe" /\ sdLast.result = "200"
    /\ probes = <<>>
    /\ services = <<>>
    /\ sdRegistered = {}
    /\ sd_stats.total_health_checks = 1

(***************************************************************************)
(* Claims about the probe batch of Service Discovery (checked under        *)
(* SpecSDFair).                                                            *)
(***************************************************************************)
\* the health_status a probe writes for an outcome
StatusFor(outcome) ==
    CASE outcome = "200"   -> "healthy"
      [] outcome = "other" -> "degraded"
      [] outcome = "error" -> "unhealthy"

\* C31: when the probe task of one instance ends, whatever its outcome, the
\* batch is still under way, every other task of the batch is still running
\* and the other instances of the table are as they were, and the instance
\* itself has the status of its own outcome; every task of a batch ends, and
\* every batch ends.
C31_ProbesIsolated ==
    /\ [][\A obj \in 1..MaxSdOps :
            ProbeEnded(obj)
            => /\ cycle'
               /\ \A other \in (DOMAIN probes) \ {obj} :
                     /\ other \in DOMAIN probes'
                     /\ InTable(services', other) = InTable(services, other)
               /\ sdLast'.result # "skipped"
                  => \A t \in InTable(services', obj) :
                        t.health_status = StatusFor(sdLast'.result)
         ]_vars
    /\ \A obj \in 1..MaxSdOps :
          (obj \in DOMAIN probes) ~> (obj \notin DOMAIN probes)
    /\ cycle ~> ~cycle

\* a batch of two probes has ended: the first probe to end failed with an
\* exception, the other was answered with 200 after it
C31_Witness ==
    /\ ~cycle
    /\ sdLast.op = "probed"
    /\ sdCycles = 1
    /\ sd_stats.total_health_checks = 2
    /\ sd_stats.failed_health_checks = 1
    /\ sd_stats.healthy_services = 1
    /\ sd_stats.unhealthy_services = 1

(***************************************************************************)
(* Claims about the indexes and the tables of the WebSocket Manager.       *)
(***************************************************************************)
\* the ids an index lists, under any key
Listed(index) == UNION {index[key] : key \in DOMAIN index}

\* C32 (checked under SpecWSIndex): in every reachable state every
\* connection id that user_connections or session_connections lists is in
\* the socket table and in the connection-info table.
C32_IndexedAreConnected ==
    \A k \in Listed(user_connections) \cup Listed(session_connections) :
        /\ k \in active_connections
        /\ k \in InfoIds(connection_info)

\* two connections were given the same user, one of them a session too; the
\* one with the session has been disconnected and the user's set lists the
\* other alone
C32_Witness ==
    /\ user_connections = [u \in {"u1"} |-> {"k2"}]
    /\ session_connections = <<>>
    /\ active_connections = {"k2"}
    /\ InfoIds(connection_info) = {"k2"}
    /\ ws_stats.disconnections = 1
    /\ transport["k1"] = "closed"

\* C33 (checked under SpecWSTables): whenever the tasks are suspended, in
\* handle_connection, send_message, broadcast_message, _cleanup_loop or
\* disconnect, and another task can run, the ids of the socket table are the
\* ids of the connection-info table.
C33_TablesAgree ==
    active_connections = InfoIds(connection_info)

\* a task is suspended in disconnect, at the close() of a connection that
\* another disconnect has removed meanwhile, while another connection is in
\* the tables
C33_Witness ==
    /\ \E t \in WsTaskIds :
          /\ wsTasks[t].pc = "close"
          /\ wsTasks[t].conn \notin active_connections
          /\ wsTasks[t].conn \notin InfoIds(connection_info)
    /\ active_connections # {}
    /\ ws_stats.disconnections = 1

\* C34 (checked under SpecWS): when a disconnect ends, also one that another
\* disconnect of the same connection has overtaken, it returns to its caller
\* without an exception and the connection is in no table and no index.
C34_DisconnectTwice ==
    [][\A t \in WsTaskIds :
         (wsTasks[t].pc = "close" /\ wsTasks'[t] # wsTasks[t])
         => /\ wsLast'.result \notin {"KeyError", "error"}
            /\ wsTasks[t].conn \notin active_connections'
            /\ wsTasks[t].conn \notin InfoIds(connection_info')
            /\ wsTasks[t].conn \notin
                   Listed(user_connections') \cup Listed(session_connections')
      ]_vars


\* Claims about the order of the handlers of one connection

\* C35 (checked under SpecWSHandlers): within one connection the handlers run
\* one at a time, each with all its replies, before the next frame is
\* received: a frame is received only by a task that waits in receive_text;
\* a handler of text_input that has sent its first message goes on to its
\* sleep and from there to the send of its ai_response, and ends before that
\* only by an exception of its send.
C35_HandlersInTurn ==
    [][\A k \in ConnIds :
         /\ (wsOps' = wsOps + 1 /\ wsLast'.op = "receive" /\ wsLast'.conn = k)
            => /\ wsTasks[k].pc = "receive"
               /\ wsTasks[k].after = ""
         /\ (wsTasks[k].after = "ack" /\ wsTasks'[k].after # "ack")
            => \/ /\ wsTasks[k].pc = "sleep"
                  /\ wsLast'.conn = k
                  /\ \/ wsTasks'[k].pc = "send" /\ wsTasks'[k].after = "reply"
                     \/ wsLast' = WsResult("send", k, "none", "False")
               \/ wsLast'.result = "KeyError"
      ]_vars

\* the handler of the second text_input of a connection has sent its
\* ai_response, after the two messages of the first, while another
\* connection is being accepted
C35_Witness ==
    /\ wsOps = MaxWsOps
    /\ wsLast = WsResult("send", "k1", "ok", "True")
    /\ wsTasks["k1"].pc = "receive"
    /\ ws_stats.messages_received >= 2
    /\ ws_stats.messages_sent >= 5
    /\ wsTasks["k2"].pc = "send"


\* Claims about the background loops

\* C36 (checked under SpecLoops): an exception in an iteration of the probe
\* loop, of the heartbeat loop or of the sweep loop is caught by the loop:
\* the task of the loop ends only by a shutdown, after the exception it is
\* ready for its next iteration, and a further iteration begins unless the
\* service is shut down, there is nothing to iterate over, or the run has
\* reached its bound.
C36_LoopsSurvive ==
    /\ [][/\ health_check_task' # health_check_task
             => sdLast'.op = "shutdown"
          /\ \A t \in {"sweep", "broadcast"} :
                (wsTasks'[t].pc = "returned" /\ wsTasks[t].pc # "returned")
                => running /\ ~running'
          /\ (sdLast'.op = "probed" /\ sdLast'.result = "error")
             => ~cycle' /\ health_check_task' = "looping"
          /\ (wsLast'.op = "swept" /\ wsLast'.result = "KeyError")
             => wsTasks'["sweep"].pc = "idle"
          /\ (wsBroadcast'.status = "KeyError" /\ wsBroadcast.status # "KeyError")
             => wsTasks'["broadcast"].pc = "idle"
         ]_vars
    /\ (sdLast.op = "probed" /\ sdLast.result = "error")
       ~> \/ cycle
          \/ health_check_task = "cancelled"
          \/ sdObjects + sdCycles >= MaxSdOps
    /\ (wsLast.op = "swept" /\ wsLast.result = "KeyError")
       ~> \/ wsLast.op \in {"swept", "sweeping"} /\ wsLast.result = ""
          \/ ~running
          \/ wsOps >= MaxWsOps
    /\ (wsBroadcast.status = "KeyError" /\ wsBroadcast.exclude = {})
       ~> \/ wsLast.op = "broadcasting"
          \/ ~running
          \/ active_connections = {}
          \/ wsOps >= MaxWsOps

\* the second iteration of the probe loop has begun when the first one had
\* raised after its probes: an instance is healthy and the stats, which the
\* first iteration did not come to update, count none
C36_Witness ==
    /\ cycle
    /\ sdCycles = 2
    /\ health_check_task = "looping"
    /\ \E i \in Positions(services) : services[i].health_status = "healthy"
    /\ sd_stats.healthy_services = 0

====
